---- MODULE Spec2Model ----
(***************************************************************************)
(* The sample MCP servers (moon-server, quotes-server, weather-server):    *)
(* the diagnostic response wrapper, the cross-origin middleware, the HTTP  *)
(* routes registered in main, the resolution of the listening port, and    *)
(* the tools of the three servers.                                         *)
(*                                                                         *)
(* Five specifications share the module; each one moves its own group of   *)
(* variables and leaves the other groups at their initial values:          *)
(*   SpecRW    the responseWriter wrapper under arbitrary call sequences   *)
(*   SpecHTTP  requests served concurrently through the mux                *)
(*   SpecMain  flag parsing and port resolution at process start           *)
(*   SpecTools the MCP calls: tools/list, tools/call and the tool handlers *)
(*             with their external HTTP exchanges                          *)
(*   SpecToolsFair  the same calls, one at a time, with fair handler steps *)
(***************************************************************************)
EXTENDS Integers, Sequences, FiniteSets, TLC

VARIABLES
    \* ---- responseWriter (moon-server) and the http.ResponseWriter it embeds
    rw_statusCode,    \* responseWriter.statusCode
    rw_headers,       \* responseWriter.headers (copy taken in WriteHeader)
    rw_body,          \* responseWriter.body (captured bytes)
    rw_isStreaming,   \* responseWriter.isStreaming
    u_header,         \* embedded ResponseWriter.Header(): the live header map
    u_wroteHeader,    \* embedded writer: the header has been committed
    u_status,         \* embedded writer: committed status code
    u_sentHeader,     \* embedded writer: header map as committed on the wire
    u_received,       \* embedded writer: every byte handed to its Write
    u_ret,            \* embedded writer: result of its last Write
    h_written,        \* history: every byte passed to responseWriter.Write
    h_ret,            \* history: result returned by the last responseWriter.Write
    h_everStreaming,  \* history: isStreaming has been TRUE at some point
    h_calls,          \* history: number of WriteHeader and Write calls made
    \* ---- one server process serving requests
    server,           \* which of the three servers this process is
    corsFlag,         \* *corsFlag
    pc,               \* per request: position in the request's handling
    req,              \* per request: method and path
    hdr,              \* per request: w.Header(), the live response header map
    committed,        \* per request: the response header has been committed
    status,           \* per request: committed status code
    sentHdr,          \* per request: header map as committed on the wire
    body,             \* per request: what has been written as body
    nextCalls,        \* per request: times the MCP transport handler was invoked
    toolInvoked,      \* per request: times a tool handler was invoked
    corsDone,         \* per request: the middleware has set its headers
    \* ---- process start
    m_server,         \* binary being started
    m_portFlag,       \* value of -port
    m_env,            \* process environment
    m_pc,             \* position in main
    m_port,           \* port, once resolved
    \* ---- one server process answering MCP requests (tools/list, tools/call)
    t_server,         \* which of the three servers this process is
    t_load,           \* one call at a time, or NCall calls at once
    tools,            \* the server's tools, in the order main added them
    quotes,           \* quotes-server: the package-level quote table
    weatherCodeDescriptions,  \* weather-server: the package-level code table
    call              \* per call: request, position, external exchange, result

rwVars   == <<rw_statusCode, rw_headers, rw_body, rw_isStreaming, u_header,
              u_wroteHeader, u_status, u_sentHeader, u_received, u_ret,
              h_written, h_ret, h_everStreaming, h_calls>>
httpVars == <<server, corsFlag, pc, req, hdr, committed, status, sentHdr, body,
              nextCalls, toolInvoked, corsDone>>
mainVars == <<m_server, m_portFlag, m_env, m_pc, m_port>>
toolVars == <<t_server, t_load, tools, quotes, weatherCodeDescriptions, call>>
vars     == <<rwVars, httpVars, mainVars, toolVars>>

(***************************************************************************)
(* Bounds of the model.                                                    *)
(***************************************************************************)
MaxCalls == 3       \* WriteHeader and Write calls made on one wrapper
NReq == 2           \* requests in flight at the same time
NCall == 2          \* MCP calls in flight at the same time

(***************************************************************************)
(* http.Header: a map from header name to value.  Get of an absent key is  *)
(* the empty string.                                                       *)
(***************************************************************************)
EmptyHeader == [k \in {} |-> ""]

HeaderSet(h, k, v) == [x \in (DOMAIN h) \cup {k} |-> IF x = k THEN v ELSE h[x]]

HeaderGet(h, k) == IF k \in DOMAIN h THEN h[k] ELSE ""

Min(a, b) == IF a <= b THEN a ELSE b

(***************************************************************************)
(*                    responseWriter  (moon-server)                        *)
(***************************************************************************)
EventStream == "text/event-stream"

AppJson == "application/json"

\* Content types a handler may put in the header map before or between calls.
ContentTypes == {AppJson, EventStream, "text/event-stream; charset=utf-8"}

StatusCodes == {200, 404}

\* The cap on captured body bytes.
CaptureCap == 1024

\* Chunk lengths passed to Write: empty, one byte, just below and just above
\* the cap (1 + 1023 fills the capture exactly).
ChunkLens == {0, 1, 1023, 1025}

\* A chunk of n bytes; the content depends on the position and on the length.
Chunk(n) == [i \in 1..n |-> (i + n) % 256]

Chunks == {Chunk(n) : n \in ChunkLens}

\* Result of a Write: (n, err).
WriteOk(b) == [n |-> Len(b), err |-> FALSE]

WriteFailed == [n |-> 0, err |-> TRUE]

NoRet == [n |-> -1, err |-> FALSE]

InitRW ==
    /\ rw_statusCode = 0
    /\ rw_headers = EmptyHeader
    /\ rw_body = <<>>
    /\ rw_isStreaming = FALSE
    /\ u_header = EmptyHeader
    /\ u_wroteHeader = FALSE
    /\ u_status = 0
    /\ u_sentHeader = EmptyHeader
    /\ u_received = <<>>
    /\ u_ret = NoRet
    /\ h_written = <<>>
    /\ h_ret = NoRet
    /\ h_everStreaming = FALSE
    /\ h_calls = 0

\* The embedded writer's WriteHeader: the first call commits status and
\* header map; a later call is superfluous and changes nothing on the wire.
UnderlyingWriteHeader(code) ==
    IF u_wroteHeader
    THEN UNCHANGED <<u_wroteHeader, u_status, u_sentHeader>>
    ELSE /\ u_wroteHeader' = TRUE
         /\ u_status' = code
         /\ u_sentHeader' = u_header

\* A handler sets the Content-Type in the header map (w.Header().Set); the
\* map stays writable after the commit, without effect on the wire.
SetContentType(ct) ==
    /\ u_header' = HeaderSet(u_header, "Content-Type", ct)
    /\ UNCHANGED <<rw_statusCode, rw_headers, rw_body, rw_isStreaming,
                   u_wroteHeader, u_status, u_sentHeader, u_received, u_ret,
                   h_written, h_ret, h_everStreaming, h_calls>>
    /\ UNCHANGED <<httpVars, mainVars, toolVars>>

\* Mode as computed by WriteHeader from the header map.
IsStreamingType(h) == HeaderGet(h, "Content-Type") = EventStream

\* responseWriter.WriteHeader
RWWriteHeader(code) ==
    /\ h_calls < MaxCalls
    /\ h_calls' = h_calls + 1
    /\ rw_statusCode' = code
    /\ rw_headers' = [k \in DOMAIN u_header |-> u_header[k]]
    /\ rw_isStreaming' = IsStreamingType(u_header)
    /\ h_everStreaming' = (h_everStreaming \/ rw_isStreaming')
    /\ UnderlyingWriteHeader(code)
    /\ UNCHANGED <<rw_body, u_header, u_received, u_ret, h_written, h_ret>>
    /\ UNCHANGED <<httpVars, mainVars, toolVars>>

\* The capture step of Write for a response that is not streaming.
CaptureFirstMutNoCap(captured, b) == captured \o b

CaptureFirst(captured, b) ==
    IF Len(captured) < CaptureCap
    THEN LET remaining == CaptureCap - Len(captured)
         IN  IF Len(b) > remaining
             THEN captured \o SubSeq(b, 1, remaining)
             ELSE captured \o b
    ELSE captured

\* responseWriter.Write.  The embedded writer commits the header with status
\* 200 if no WriteHeader came first, and either takes the chunk or fails.
RWWrite(b) ==
    /\ h_calls < MaxCalls
    /\ h_calls' = h_calls + 1
    /\ rw_body' = IF ~rw_isStreaming THEN CaptureFirst(rw_body, b) ELSE rw_body
    /\ h_written' = h_written \o b
    /\ UnderlyingWriteHeader(200)
    /\ u_received' = u_received \o b
    /\ \E ok \in BOOLEAN : u_ret' = IF ok THEN WriteOk(b) ELSE WriteFailed
    /\ h_ret' = u_ret'
    /\ UNCHANGED <<rw_statusCode, rw_headers, rw_isStreaming, u_header,
                   h_everStreaming>>
    /\ UNCHANGED <<httpVars, mainVars, toolVars>>

NextRW ==
    \/ \E ct \in ContentTypes : SetContentType(ct)
    \/ \E code \in StatusCodes : RWWriteHeader(code)
    \/ \E b \in Chunks : RWWrite(b)

(***************************************************************************)
(*          main: routes, cross-origin middleware, /health, catch-all      *)
(***************************************************************************)
\* The three binaries.
Servers == {"moon-server", "quotes-server", "weather-server"}

\* Name given to mcp.NewServer (mcp.Implementation.Name) in each binary.
ServerName(s) ==
    CASE s = "moon-server"    -> "moon-phase-server"
      [] s = "quotes-server"  -> "quotes-server"
      [] s = "weather-server" -> "weather-server"

Methods == {"GET", "POST", "OPTIONS"}

\* Request paths: the two registered patterns and paths that match neither.
Paths == {"/mcp", "/health", "/", "/mcp/", "/healthz"}

Req == 1..NReq

\* json.NewEncoder(w).Encode(map[string]string{...}): a JSON object, i.e. the
\* set of its name/value pairs.
JsonEncodeMap(m) == {<<k, m[k]>> : k \in DOMAIN m}

\* The four header assignments at the top of corsMiddleware.
CorsHeadersMutNoExpose(h) ==
    HeaderSet(HeaderSet(HeaderSet(h,
        "Access-Control-Allow-Origin", "*"),
        "Access-Control-Allow-Methods", "GET, POST, OPTIONS"),
        "Access-Control-Allow-Headers", "Content-Type, Authorization")

CorsHeaders(h) ==
    HeaderSet(HeaderSet(HeaderSet(HeaderSet(h,
        "Access-Control-Allow-Origin", "*"),
        "Access-Control-Allow-Methods", "GET, POST, OPTIONS"),
        "Access-Control-Allow-Headers", "Content-Type, Authorization"),
        "Access-Control-Expose-Headers", "Mcp-Session-Id, Content-Type, Cache-Control")

\* The preflight test of corsMiddleware.
IsPreflightMutNever(method) == FALSE

IsPreflight(method) == method = "OPTIONS"

\* The header assignments of the /health handler when *corsFlag is set.
HealthCorsHeaders(h) ==
    HeaderSet(HeaderSet(HeaderSet(h,
        "Access-Control-Allow-Origin", "*"),
        "Access-Control-Allow-Methods", "GET, POST, OPTIONS"),
        "Access-Control-Allow-Headers", "Content-Type, Authorization")

\* The map encoded by the /health handler.
HealthDocMutNoEndpoint(s) ==
    [k \in {"status", "server", "version"} |->
        CASE k = "status"  -> "ok"
          [] k = "server"  -> s
          [] k = "version" -> "1.0.0"]

HealthDoc(s) ==
    [k \in {"status", "server", "version", "mcp_endpoint"} |->
        CASE k = "status"       -> "ok"
          [] k = "server"       -> (CASE s = "moon-server"    -> "moon-phase-server"
                                      [] s = "quotes-server"  -> "quotes-server"
                                      [] s = "weather-server" -> "weather-server")
          [] k = "version"      -> "1.0.0"
          [] k = "mcp_endpoint" -> "/mcp"]

\* The map encoded by the catch-all handler.
NotFoundDocMutNoPath(path) ==
    [k \in {"error", "message"} |->
        CASE k = "error"   -> "Not Found"
          [] k = "message" -> "Path not found. Try /health or /mcp"]

NotFoundDoc(path) ==
    [k \in {"error", "message"} |->
        CASE k = "error"   -> "Not Found"
          [] k = "message" -> "Path " \o path \o " not found. Try /health or /mcp"]

\* What the MCP transport handler (mcp.NewStreamableHTTPHandler) may answer:
\* a buffered JSON document or an event stream, with or without having run a
\* tool handler, or a rejection of the request.
McpOutcomes ==
    {[status |-> 200, ct |-> AppJson,     tool |-> 0, body |-> <<"json-rpc response">>],
     [status |-> 200, ct |-> AppJson,     tool |-> 1, body |-> <<"json-rpc response">>],
     [status |-> 200, ct |-> EventStream, tool |-> 1, body |-> <<"event", "event">>],
     [status |-> 400, ct |-> "text/plain; charset=utf-8", tool |-> 0, body |-> <<"Bad Request">>]}

NoRequest == [method |-> "", path |-> ""]

InitHTTP ==
    /\ server \in Servers
    /\ corsFlag \in BOOLEAN
    /\ pc = [r \in Req |-> "idle"]
    /\ req = [r \in Req |-> NoRequest]
    /\ hdr = [r \in Req |-> EmptyHeader]
    /\ committed = [r \in Req |-> FALSE]
    /\ status = [r \in Req |-> 0]
    /\ sentHdr = [r \in Req |-> EmptyHeader]
    /\ body = [r \in Req |-> <<>>]
    /\ nextCalls = [r \in Req |-> 0]
    /\ toolInvoked = [r \in Req |-> 0]
    /\ corsDone = [r \in Req |-> FALSE]

\* net/http accepts a request and hands it, with a fresh ResponseWriter, to the mux.
Receive(r, method, path) ==
    /\ pc[r] = "idle"
    /\ pc' = [pc EXCEPT ![r] = "received"]
    /\ req' = [req EXCEPT ![r] = [method |-> method, path |-> path]]
    /\ UNCHANGED <<server, corsFlag, hdr, committed, status, sentHdr, body,
                   nextCalls, toolInvoked, corsDone>>
    /\ UNCHANGED <<rwVars, mainVars, toolVars>>

\* corsMiddleware, first part: the CORS headers are set for every request.
CorsSetHeaders(r) ==
    /\ pc[r] = "received"
    /\ req[r].path = "/mcp"
    /\ corsFlag
    /\ hdr' = [hdr EXCEPT ![r] = CorsHeaders(hdr[r])]
    /\ corsDone' = [corsDone EXCEPT ![r] = TRUE]
    /\ pc' = [pc EXCEPT ![r] = "cors"]
    /\ UNCHANGED <<server, corsFlag, req, committed, status, sentHdr, body,
                   nextCalls, toolInvoked>>
    /\ UNCHANGED <<rwVars, mainVars, toolVars>>

\* corsMiddleware, preflight branch: WriteHeader(200) and return.
CorsPreflight(r) ==
    /\ pc[r] = "cors"
    /\ IsPreflight(req[r].method)
    /\ committed' = [committed EXCEPT ![r] = TRUE]
    /\ status' = [status EXCEPT ![r] = 200]
    /\ sentHdr' = [sentHdr EXCEPT ![r] = hdr[r]]
    /\ pc' = [pc EXCEPT ![r] = "closed"]
    /\ UNCHANGED <<server, corsFlag, req, hdr, body, nextCalls, toolInvoked,
                   corsDone>>
    /\ UNCHANGED <<rwVars, mainVars, toolVars>>

\* corsMiddleware, last line: next.ServeHTTP(w, r).
CorsForward(r) ==
    /\ pc[r] = "cors"
    /\ ~IsPreflight(req[r].method)
    /\ nextCalls' = [nextCalls EXCEPT ![r] = @ + 1]
    /\ pc' = [pc EXCEPT ![r] = "handler"]
    /\ UNCHANGED <<server, corsFlag, req, hdr, committed, status, sentHdr, body,
                   toolInvoked, corsDone>>
    /\ UNCHANGED <<rwVars, mainVars, toolVars>>

\* With -cors=false the mux hands /mcp to the MCP transport handler directly.
McpDirect(r) ==
    /\ pc[r] = "received"
    /\ req[r].path = "/mcp"
    /\ ~corsFlag
    /\ nextCalls' = [nextCalls EXCEPT ![r] = @ + 1]
    /\ pc' = [pc EXCEPT ![r] = "handler"]
    /\ UNCHANGED <<server, corsFlag, req, hdr, committed, status, sentHdr, body,
                   toolInvoked, corsDone>>
    /\ UNCHANGED <<rwVars, mainVars, toolVars>>

\* The MCP transport handler answers: it sets its Content-Type, commits the
\* header and writes the body; a tool handler runs only for a POST.
McpRespond(r, o) ==
    /\ pc[r] = "handler"
    /\ o.tool = 1 => req[r].method = "POST"
    /\ hdr' = [hdr EXCEPT ![r] = HeaderSet(hdr[r], "Content-Type", o.ct)]
    /\ committed' = [committed EXCEPT ![r] = TRUE]
    /\ status' = [status EXCEPT ![r] = o.status]
    /\ sentHdr' = [sentHdr EXCEPT ![r] = hdr'[r]]
    /\ body' = [body EXCEPT ![r] = o.body]
    /\ toolInvoked' = [toolInvoked EXCEPT ![r] = o.tool]
    /\ pc' = [pc EXCEPT ![r] = "closed"]
    /\ UNCHANGED <<server, corsFlag, req, nextCalls, corsDone>>
    /\ UNCHANGED <<rwVars, mainVars, toolVars>>

\* The /health handler.  Encode's Write commits the header with status 200.
Health(r) ==
    /\ pc[r] = "received"
    /\ req[r].path = "/health"
    /\ hdr' = [hdr EXCEPT ![r] =
                 HeaderSet(IF corsFlag THEN HealthCorsHeaders(hdr[r]) ELSE hdr[r],
                           "Content-Type", AppJson)]
    /\ committed' = [committed EXCEPT ![r] = TRUE]
    /\ status' = [status EXCEPT ![r] = 200]
    /\ sentHdr' = [sentHdr EXCEPT ![r] = hdr'[r]]
    /\ body' = [body EXCEPT ![r] = <<JsonEncodeMap(HealthDoc(server))>>]
    /\ pc' = [pc EXCEPT ![r] = "closed"]
    /\ UNCHANGED <<server, corsFlag, req, nextCalls, toolInvoked, corsDone>>
    /\ UNCHANGED <<rwVars, mainVars, toolVars>>

\* The catch-all handler registered on "/".
CatchAll(r) ==
    /\ pc[r] = "received"
    /\ req[r].path \notin {"/mcp", "/health"}
    /\ hdr' = [hdr EXCEPT ![r] = HeaderSet(hdr[r], "Content-Type", AppJson)]
    /\ committed' = [committed EXCEPT ![r] = TRUE]
    /\ status' = [status EXCEPT ![r] = 404]
    /\ sentHdr' = [sentHdr EXCEPT ![r] = hdr'[r]]
    /\ body' = [body EXCEPT ![r] = <<JsonEncodeMap(NotFoundDoc(req[r].path))>>]
    /\ pc' = [pc EXCEPT ![r] = "closed"]
    /\ UNCHANGED <<server, corsFlag, req, nextCalls, toolInvoked, corsDone>>
    /\ UNCHANGED <<rwVars, mainVars, toolVars>>

\* The exchange is over: the request and its ResponseWriter are dropped, and
\* the next request starts with a fresh one.
Finish(r) ==
    /\ pc[r] = "closed"
    /\ pc' = [pc EXCEPT ![r] = "idle"]
    /\ req' = [req EXCEPT ![r] = NoRequest]
    /\ hdr' = [hdr EXCEPT ![r] = EmptyHeader]
    /\ committed' = [committed EXCEPT ![r] = FALSE]
    /\ status' = [status EXCEPT ![r] = 0]
    /\ sentHdr' = [sentHdr EXCEPT ![r] = EmptyHeader]
    /\ body' = [body EXCEPT ![r] = <<>>]
    /\ nextCalls' = [nextCalls EXCEPT ![r] = 0]
    /\ toolInvoked' = [toolInvoked EXCEPT ![r] = 0]
    /\ corsDone' = [corsDone EXCEPT ![r] = FALSE]
    /\ UNCHANGED <<server, corsFlag>>
    /\ UNCHANGED <<rwVars, mainVars, toolVars>>

NextHTTP ==
    \/ \E r \in Req, method \in Methods, path \in Paths : Receive(r, method, path)
    \/ \E r \in Req : CorsSetHeaders(r)
    \/ \E r \in Req : CorsPreflight(r)
    \/ \E r \in Req : CorsForward(r)
    \/ \E r \in Req : McpDirect(r)
    \/ \E r \in Req, o \in McpOutcomes : McpRespond(r, o)
    \/ \E r \in Req : Health(r)
    \/ \E r \in Req : CatchAll(r)
    \/ \E r \in Req : Finish(r)

(***************************************************************************)
(*                 main: resolution of the listening port                  *)
(***************************************************************************)
\* Environment variables the model sets; os.Getenv of an unset variable is "".
EnvNames == {"MOON_SERVER_PORT", "QUOTES_SERVER_PORT", "WEATHER_SERVER_PORT", "PORT"}

PortValues == {"", "9001", "7070"}

Getenv(env, name) == IF name \in DOMAIN env THEN env[name] ELSE ""

\* moon-server: port from -port, else MOON_SERVER_PORT, else "8081".
MoonPortMutEnvFirst(flag, env) ==
    IF Getenv(env, "MOON_SERVER_PORT") # "" THEN Getenv(env, "MOON_SERVER_PORT")
    ELSE IF flag # "" THEN flag
    ELSE "8081"

MoonPort(flag, env) ==
    IF flag = ""
    THEN IF Getenv(env, "MOON_SERVER_PORT") = ""
         THEN "8081"
         ELSE Getenv(env, "MOON_SERVER_PORT")
    ELSE flag

\* quotes-server: port from -port, else QUOTES_SERVER_PORT, else "8082".
QuotesPort(flag, env) ==
    IF flag = ""
    THEN IF Getenv(env, "QUOTES_SERVER_PORT") = ""
         THEN "8082"
         ELSE Getenv(env, "QUOTES_SERVER_PORT")
    ELSE flag

\* weather-server: port from -port, else WEATHER_SERVER_PORT, else "8083".
WeatherPort(flag, env) ==
    IF flag = ""
    THEN IF Getenv(env, "WEATHER_SERVER_PORT") = ""
         THEN "8083"
         ELSE Getenv(env, "WEATHER_SERVER_PORT")
    ELSE flag

InitMain ==
    /\ m_server \in Servers
    /\ m_portFlag \in PortValues
    /\ m_env \in [EnvNames -> PortValues]
    /\ m_pc = "start"
    /\ m_port = ""

\* main up to the computation of addr, in each of the three binaries.
MoonMain ==
    /\ m_pc = "start"
    /\ m_server = "moon-server"
    /\ m_port' = MoonPort(m_portFlag, m_env)
    /\ m_pc' = "serving"
    /\ UNCHANGED <<m_server, m_portFlag, m_env>>
    /\ UNCHANGED <<rwVars, httpVars, toolVars>>

QuotesMain ==
    /\ m_pc = "start"
    /\ m_server = "quotes-server"
    /\ m_port' = QuotesPort(m_portFlag, m_env)
    /\ m_pc' = "serving"
    /\ UNCHANGED <<m_server, m_portFlag, m_env>>
    /\ UNCHANGED <<rwVars, httpVars, toolVars>>

WeatherMain ==
    /\ m_pc = "start"
    /\ m_server = "weather-server"
    /\ m_port' = WeatherPort(m_portFlag, m_env)
    /\ m_pc' = "serving"
    /\ UNCHANGED <<m_server, m_portFlag, m_env>>
    /\ UNCHANGED <<rwVars, httpVars, toolVars>>

NextMain == MoonMain \/ QuotesMain \/ WeatherMain

(***************************************************************************)
(*              Strings of the tools: sequences of characters              *)
(***************************************************************************)
UpperCase == <<"A", "B", "C", "D", "E", "F", "G", "H", "I", "J", "K", "L", "M",
               "N", "O", "P", "Q", "R", "S", "T", "U", "V", "W", "X", "Y", "Z">>

LowerCase == <<"a", "b", "c", "d", "e", "f", "g", "h", "i", "j", "k", "l", "m",
               "n", "o", "p", "q", "r", "s", "t", "u", "v", "w", "x", "y", "z">>

\* strings.ToLower on one character.
LowerOf ==
    [ch \in {UpperCase[i] : i \in DOMAIN UpperCase} |->
        LowerCase[CHOOSE i \in DOMAIN UpperCase : UpperCase[i] = ch]]

ToLowerChar(ch) == IF ch \in DOMAIN LowerOf THEN LowerOf[ch] ELSE ch

\* strings.ToLower.
ToLower(s) == [i \in 1..Len(s) |-> ToLowerChar(s[i])]

\* strings.Contains(s, substr).
Contains(s, substr) ==
    \E i \in 0..(Len(s) - Len(substr)) :
        \A j \in 1..Len(substr) : s[i + j] = substr[j]

Digits == <<"0", "1", "2", "3", "4", "5", "6", "7", "8", "9">>

\* fmt.Sprintf("%d", n).
RECURSIVE Itoa(_)
Itoa(n) ==
    IF n < 0 THEN "-" \o Itoa(0 - n)
    ELSE IF n < 10 THEN Digits[n + 1]
    ELSE Itoa(n \div 10) \o Digits[(n % 10) + 1]

\* An error value: a format and its arguments, a sequence of strings; the
\* nil error is NoErr.
Err(format, arg) == [format |-> format, arg |-> arg]

NoErr == Err("", <<>>)

\* A JSON object's field, or the Go zero value of the field when absent.
Field(args, name, zero) == IF name \in DOMAIN args THEN args[name] ELSE zero

(***************************************************************************)
(*                       quotes-server: the tools                          *)
(***************************************************************************)
\* var quotes: the local quote table.
Quotes == <<
    [Text |-> <<"T", "h", "e", " ", "o", "n", "l", "y", " ", "w", "a", "y", " ",
               "t", "o", " ", "d", "o", " ", "g", "r", "e", "a", "t", " ", "w",
               "o", "r", "k", " ", "i", "s", " ", "t", "o", " ", "l", "o", "v",
               "e", " ", "w", "h", "a", "t", " ", "y", "o", "u", " ", "d", "o",
               ".">>,
     Author |-> <<"S", "t", "e", "v", "e", " ", "J", "o", "b", "s">>,
     Category |-> <<"m", "o", "t", "i", "v", "a", "t", "i", "o", "n">>],
    [Text |-> <<"I", "n", "n", "o", "v", "a", "t", "i", "o", "n", " ", "d", "i",
               "s", "t", "i", "n", "g", "u", "i", "s", "h", "e", "s", " ", "b",
               "e", "t", "w", "e", "e", "n", " ", "a", " ", "l", "e", "a", "d",
               "e", "r", " ", "a", "n", "d", " ", "a", " ", "f", "o", "l", "l",
               "o", "w", "e", "r", ".">>,
     Author |-> <<"S", "t", "e", "v", "e", " ", "J", "o", "b", "s">>,
     Category |-> <<"i", "n", "n", "o", "v", "a", "t", "i", "o", "n">>],
    [Text |-> <<"S", "t", "a", "y", " ", "h", "u", "n", "g", "r", "y", ",", " ",
               "s", "t", "a", "y", " ", "f", "o", "o", "l", "i", "s", "h", ".">>,
     Author |-> <<"S", "t", "e", "v", "e", " ", "J", "o", "b", "s">>,
     Category |-> <<"m", "o", "t", "i", "v", "a", "t", "i", "o", "n">>],
    [Text |-> <<"L", "i", "f", "e", " ", "i", "s", " ", "w", "h", "a", "t", " ",
               "h", "a", "p", "p", "e", "n", "s", " ", "w", "h", "e", "n", " ",
               "y", "o", "u", "'", "r", "e", " ", "b", "u", "s", "y", " ", "m",
               "a", "k", "i", "n", "g", " ", "o", "t", "h", "e", "r", " ", "p",
               "l", "a", "n", "s", ".">>,
     Author |-> <<"J", "o", "h", "n", " ", "L", "e", "n", "n", "o", "n">>,
     Category |-> <<"l", "i", "f", "e">>],
    [Text |-> <<"T", "h", "e", " ", "f", "u", "t", "u", "r", "e", " ", "b", "e",
               "l", "o", "n", "g", "s", " ", "t", "o", " ", "t", "h", "o", "s",
               "e", " ", "w", "h", "o", " ", "b", "e", "l", "i", "e", "v", "e",
               " ", "i", "n", " ", "t", "h", "e", " ", "b", "e", "a", "u", "t",
               "y", " ", "o", "f", " ", "t", "h", "e", "i", "r", " ", "d", "r",
               "e", "a", "m", "s", ".">>,
     Author |-> <<"E", "l", "e", "a", "n", "o", "r", " ", "R", "o", "o", "s", "e",
                 "v", "e", "l", "t">>,
     Category |-> <<"m", "o", "t", "i", "v", "a", "t", "i", "o", "n">>],
    [Text |-> <<"I", "t", " ", "i", "s", " ", "d", "u", "r", "i", "n", "g", " ",
               "o", "u", "r", " ", "d", "a", "r", "k", "e", "s", "t", " ", "m",
               "o", "m", "e", "n", "t", "s", " ", "t", "h", "a", "t", " ", "w",
               "e", " ", "m", "u", "s", "t", " ", "f", "o", "c", "u", "s", " ",
               "t", "o", " ", "s", "e", "e", " ", "t", "h", "e", " ", "l", "i",
               "g", "h", "t", ".">>,
     Author |-> <<"A", "r", "i", "s", "t", "o", "t", "l", "e">>,
     Category |-> <<"w", "i", "s", "d", "o", "m">>],
    [Text |-> <<"T", "h", "e", " ", "o", "n", "l", "y", " ", "t", "h", "i", "n",
               "g", " ", "w", "e", " ", "h", "a", "v", "e", " ", "t", "o", " ",
               "f", "e", "a", "r", " ", "i", "s", " ", "f", "e", "a", "r", " ",
               "i", "t", "s", "e", "l", "f", ".">>,
     Author |-> <<"F", "r", "a", "n", "k", "l", "i", "n", " ", "D", ".", " ", "R",
                 "o", "o", "s", "e", "v", "e", "l", "t">>,
     Category |-> <<"c", "o", "u", "r", "a", "g", "e">>],
    [Text |-> <<"I", "n", " ", "t", "h", "e", " ", "m", "i", "d", "d", "l", "e",
               " ", "o", "f", " ", "d", "i", "f", "f", "i", "c", "u", "l", "t",
               "y", " ", "l", "i", "e", "s", " ", "o", "p", "p", "o", "r", "t",
               "u", "n", "i", "t", "y", ".">>,
     Author |-> <<"A", "l", "b", "e", "r", "t", " ", "E", "i", "n", "s", "t", "e",
                 "i", "n">>,
     Category |-> <<"w", "i", "s", "d", "o", "m">>],
    [Text |-> <<"I", "m", "a", "g", "i", "n", "a", "t", "i", "o", "n", " ", "i",
               "s", " ", "m", "o", "r", "e", " ", "i", "m", "p", "o", "r", "t",
               "a", "n", "t", " ", "t", "h", "a", "n", " ", "k", "n", "o", "w",
               "l", "e", "d", "g", "e", ".">>,
     Author |-> <<"A", "l", "b", "e", "r", "t", " ", "E", "i", "n", "s", "t", "e",
                 "i", "n">>,
     Category |-> <<"w", "i", "s", "d", "o", "m">>],
    [Text |-> <<"B", "e", " ", "t", "h", "e", " ", "c", "h", "a", "n", "g", "e",
               " ", "y", "o", "u", " ", "w", "i", "s", "h", " ", "t", "o", " ",
               "s", "e", "e", " ", "i", "n", " ", "t", "h", "e", " ", "w", "o",
               "r", "l", "d", ".">>,
     Author |-> <<"M", "a", "h", "a", "t", "m", "a", " ", "G", "a", "n", "d", "h",
                 "i">>,
     Category |-> <<"m", "o", "t", "i", "v", "a", "t", "i", "o", "n">>],
    [Text |-> <<"A", "n", " ", "e", "y", "e", " ", "f", "o", "r", " ", "a", "n",
               " ", "e", "y", "e", " ", "o", "n", "l", "y", " ", "e", "n", "d",
               "s", " ", "u", "p", " ", "m", "a", "k", "i", "n", "g", " ", "t",
               "h", "e", " ", "w", "h", "o", "l", "e", " ", "w", "o", "r", "l",
               "d", " ", "b", "l", "i", "n", "d", ".">>,
     Author |-> <<"M", "a", "h", "a", "t", "m", "a", " ", "G", "a", "n", "d", "h",
                 "i">>,
     Category |-> <<"w", "i", "s", "d", "o", "m">>],
    [Text |-> <<"T", "h", "e", " ", "b", "e", "s", "t", " ", "t", "i", "m", "e",
               " ", "t", "o", " ", "p", "l", "a", "n", "t", " ", "a", " ", "t",
               "r", "e", "e", " ", "w", "a", "s", " ", "2", "0", " ", "y", "e",
               "a", "r", "s", " ", "a", "g", "o", ".", " ", "T", "h", "e", " ",
               "s", "e", "c", "o", "n", "d", " ", "b", "e", "s", "t", " ", "t",
               "i", "m", "e", " ", "i", "s", " ", "n", "o", "w", ".">>,
     Author |-> <<"C", "h", "i", "n", "e", "s", "e", " ", "P", "r", "o", "v", "e",
                 "r", "b">>,
     Category |-> <<"w", "i", "s", "d", "o", "m">>],
    [Text |-> <<"T", "a", "l", "k", " ", "i", "s", " ", "c", "h", "e", "a", "p",
               ".", " ", "S", "h", "o", "w", " ", "m", "e", " ", "t", "h", "e",
               " ", "c", "o", "d", "e", ".">>,
     Author |-> <<"L", "i", "n", "u", "s", " ", "T", "o", "r", "v", "a", "l", "d",
                 "s">>,
     Category |-> <<"p", "r", "o", "g", "r", "a", "m", "m", "i", "n", "g">>],
    [Text |-> <<"F", "i", "r", "s", "t", ",", " ", "s", "o", "l", "v", "e", " ",
               "t", "h", "e", " ", "p", "r", "o", "b", "l", "e", "m", ".", " ",
               "T", "h", "e", "n", ",", " ", "w", "r", "i", "t", "e", " ", "t",
               "h", "e", " ", "c", "o", "d", "e", ".">>,
     Author |-> <<"J", "o", "h", "n", " ", "J", "o", "h", "n", "s", "o", "n">>,
     Category |-> <<"p", "r", "o", "g", "r", "a", "m", "m", "i", "n", "g">>],
    [Text |-> <<"C", "o", "d", "e", " ", "i", "s", " ", "l", "i", "k", "e", " ",
               "h", "u", "m", "o", "r", ".", " ", "W", "h", "e", "n", " ", "y",
               "o", "u", " ", "h", "a", "v", "e", " ", "t", "o", " ", "e", "x",
               "p", "l", "a", "i", "n", " ", "i", "t", ",", " ", "i", "t", "'",
               "s", " ", "b", "a", "d", ".">>,
     Author |-> <<"C", "o", "r", "y", " ", "H", "o", "u", "s", "e">>,
     Category |-> <<"p", "r", "o", "g", "r", "a", "m", "m", "i", "n", "g">>],
    [Text |-> <<"S", "i", "m", "p", "l", "i", "c", "i", "t", "y", " ", "i", "s",
               " ", "t", "h", "e", " ", "s", "o", "u", "l", " ", "o", "f", " ",
               "e", "f", "f", "i", "c", "i", "e", "n", "c", "y", ".">>,
     Author |-> <<"A", "u", "s", "t", "i", "n", " ", "F", "r", "e", "e", "m", "a",
                 "n">>,
     Category |-> <<"p", "r", "o", "g", "r", "a", "m", "m", "i", "n", "g">>],
    [Text |-> <<"A", "n", "y", " ", "f", "o", "o", "l", " ", "c", "a", "n", " ",
               "w", "r", "i", "t", "e", " ", "c", "o", "d", "e", " ", "t", "h",
               "a", "t", " ", "a", " ", "c", "o", "m", "p", "u", "t", "e", "r",
               " ", "c", "a", "n", " ", "u", "n", "d", "e", "r", "s", "t", "a",
               "n", "d", ".", " ", "G", "o", "o", "d", " ", "p", "r", "o", "g",
               "r", "a", "m", "m", "e", "r", "s", " ", "w", "r", "i", "t", "e",
               " ", "c", "o", "d", "e", " ", "t", "h", "a", "t", " ", "h", "u",
               "m", "a", "n", "s", " ", "c", "a", "n", " ", "u", "n", "d", "e",
               "r", "s", "t", "a", "n", "d", ".">>,
     Author |-> <<"M", "a", "r", "t", "i", "n", " ", "F", "o", "w", "l", "e", "r">>,
     Category |-> <<"p", "r", "o", "g", "r", "a", "m", "m", "i", "n", "g">>],
    [Text |-> <<"T", "h", "e", " ", "m", "o", "s", "t", " ", "d", "a", "m", "a",
               "g", "i", "n", "g", " ", "p", "h", "r", "a", "s", "e", " ", "i",
               "n", " ", "t", "h", "e", " ", "l", "a", "n", "g", "u", "a", "g",
               "e", " ", "i", "s", ":", " ", "W", "e", "'", "v", "e", " ", "a",
               "l", "w", "a", "y", "s", " ", "d", "o", "n", "e", " ", "i", "t",
               " ", "t", "h", "i", "s", " ", "w", "a", "y", ".">>,
     Author |-> <<"G", "r", "a", "c", "e", " ", "H", "o", "p", "p", "e", "r">>,
     Category |-> <<"i", "n", "n", "o", "v", "a", "t", "i", "o", "n">>]
    >>

\* The zero values Quote{} and SearchQuotesOutput{}.
ZeroQuote == [Text |-> <<>>, Author |-> <<>>, Category |-> <<>>]

ZeroSearchQuotesOutput == [Quotes |-> <<>>, Total |-> 0]

\* Arguments decoded into GetRandomQuoteInput and SearchQuotesInput.
GetRandomQuoteInput(args) == [Category |-> Field(args, "category", <<>>)]

SearchQuotesInput(args) ==
    [Query |-> Field(args, "query", <<>>), Limit |-> Field(args, "limit", 0)]

\* What the quote API exchange came to: the error of client.Get, or the
\* status and body of the response.  A body is decodable into
\* []ZenQuoteResponse or not.
ExtError(e) == [err |-> e, status |-> 0, decodable |-> FALSE, value |-> <<>>]

ExtResponse(code, decodable, value) ==
    [err |-> "", status |-> code, decodable |-> decodable, value |-> value]

ZenQuote == [q |-> <<"B", "e", " ", "k", "i", "n", "d", ".">>,
             a |-> <<"Z", "e", "n">>]

\* fetchQuoteFromAPI, from the return of client.Get on.
fetchQuoteFromAPI(x) ==
    IF x.err # ""
    THEN [quote |-> ZeroQuote, err |-> Err("%w", <<x.err>>)]
    ELSE IF x.status # 200
    THEN [quote |-> ZeroQuote, err |-> Err("API returned status %d", <<Itoa(x.status)>>)]
    ELSE IF ~x.decodable
    THEN [quote |-> ZeroQuote, err |-> Err("%w", <<"json: cannot decode">>)]
    ELSE IF Len(x.value) = 0
    THEN [quote |-> ZeroQuote, err |-> Err("empty response from API", <<>>)]
    ELSE [quote |-> [Text |-> x.value[1].q, Author |-> x.value[1].a,
                     Category |-> <<>>],
          err |-> NoErr]

\* The quotes of the table whose lower-cased category is the lower-cased one
\* asked for, in table order.
RECURSIVE FilterByCategory(_, _)
FilterByCategory(table, category) ==
    IF table = <<>> THEN <<>>
    ELSE IF ToLower(Head(table).Category) = category
         THEN <<Head(table)>> \o FilterByCategory(Tail(table), category)
         ELSE FilterByCategory(Tail(table), category)

\* The filter comparing the category as given, without lower-casing it.
filteredQuotesMutCaseSensitive(table, input) ==
    IF input.Category # <<>>
    THEN FilterByCategory(table, input.Category)
    ELSE table

\* getRandomQuote after fetchQuoteFromAPI returned: the quotes rand.Intn
\* chooses from, or none when the handler returns before choosing.
filteredQuotes(table, input) ==
    IF input.Category # <<>>
    THEN FilterByCategory(table, ToLower(input.Category))
    ELSE table

\* The table after getRandomQuote has filtered it, had the handler filtered
\* in place (filteredQuotes := quotes[:0]).
quotesAfterFilterMutInPlace(table, input) ==
    IF input.Category # <<>>
    THEN LET filtered == FilterByCategory(table, ToLower(input.Category))
         IN  filtered \o SubSeq(table, Len(filtered) + 1, Len(table))
    ELSE table

\* The table after getRandomQuote has filtered it: the handler appends the
\* matching quotes to a slice of its own and only reads the table.
quotesAfterFilter(table, input) == table

\* getRandomQuote with the API quote returned whenever the API answered.
getRandomQuoteMutApiFirst(table, input, fetched, idx) ==
    IF fetched.err = NoErr
    THEN [out |-> fetched.quote, err |-> NoErr]
    ELSE LET filtered == filteredQuotes(table, input)
         IN  IF filtered = <<>>
             THEN [out |-> ZeroQuote,
                   err |-> Err("no quotes found for category: %s", input.Category)]
             ELSE [out |-> filtered[idx + 1], err |-> NoErr]

\* getRandomQuote with the error of the API returned to the caller.
getRandomQuoteMutPropagate(table, input, fetched, idx) ==
    IF fetched.err # NoErr
    THEN [out |-> ZeroQuote, err |-> fetched.err]
    ELSE IF input.Category = <<>>
    THEN [out |-> fetched.quote, err |-> NoErr]
    ELSE LET filtered == filteredQuotes(table, input)
         IN  IF filtered = <<>>
             THEN [out |-> ZeroQuote,
                   err |-> Err("no quotes found for category: %s", input.Category)]
             ELSE [out |-> filtered[idx + 1], err |-> NoErr]

\* getRandomQuote: fetched is what fetchQuoteFromAPI returned, idx what
\* rand.Intn(len(filteredQuotes)) returned.
getRandomQuote(table, input, fetched, idx) ==
    IF fetched.err = NoErr /\ input.Category = <<>>
    THEN [out |-> fetched.quote, err |-> NoErr]
    ELSE LET filtered == filteredQuotes(table, input)
         IN  IF filtered = <<>>
             THEN [out |-> ZeroQuote,
                   err |-> Err("no quotes found for category: %s", input.Category)]
             ELSE [out |-> filtered[idx + 1], err |-> NoErr]

\* The values rand.Intn can return in getRandomQuote; 0 stands in where the
\* handler returns without calling it.
RandChoices(table, input, fetched) ==
    IF fetched.err = NoErr /\ input.Category = <<>>
    THEN {0}
    ELSE LET filtered == filteredQuotes(table, input)
         IN  IF filtered = <<>> THEN {0} ELSE 0..(Len(filtered) - 1)

\* searchQuotes: the limit in force, without the cap at 10.
EffectiveLimitMutNoCap(limit) == IF limit <= 0 THEN 5 ELSE limit

\* searchQuotes: the limit in force.
EffectiveLimit(limit) ==
    IF limit <= 0 THEN 5
    ELSE IF limit > 10 THEN 10
    ELSE limit

\* searchQuotes looking for the query in the text of the quote alone.
QuoteMatchesMutTextOnly(q, query) == Contains(ToLower(q.Text), query)

\* searchQuotes: does the quote match the lower-cased query.
QuoteMatches(q, query) ==
    \/ Contains(ToLower(q.Text), query)
    \/ Contains(ToLower(q.Author), query)
    \/ Contains(ToLower(q.Category), query)

\* searchQuotes: the loop over the table, leaving once limit results are in.
RECURSIVE SearchLoop(_, _, _, _)
SearchLoop(table, query, limit, results) ==
    IF table = <<>> THEN results
    ELSE IF QuoteMatches(Head(table), query)
         THEN IF Len(results) + 1 >= limit
              THEN Append(results, Head(table))
              ELSE SearchLoop(Tail(table), query, limit,
                              Append(results, Head(table)))
         ELSE SearchLoop(Tail(table), query, limit, results)

searchQuotes(table, input) ==
    IF input.Query = <<>>
    THEN [out |-> ZeroSearchQuotesOutput, err |-> Err("query is required", <<>>)]
    ELSE LET results == SearchLoop(table, ToLower(input.Query),
                                   EffectiveLimit(input.Limit), <<>>)
         IN  [out |-> [Quotes |-> results, Total |-> Len(results)],
              err |-> NoErr]

\* listCategories: the set of non-empty categories of the table; the handler
\* appends them in the iteration order of a Go map, which is any order.
CategorySet(table) ==
    {table[i].Category : i \in DOMAIN table} \ {<<>>}

\* The orders in which the elements of a set can be appended.
RECURSIVE Orders(_)
Orders(S) ==
    IF S = {} THEN {<<>>}
    ELSE UNION {{<<x>> \o s : s \in Orders(S \ {x})} : x \in S}

\* listCategories appending the category of every quote, without the set.
listCategoriesMutPerQuote(table) ==
    {[out |-> [Categories |-> [i \in DOMAIN table |-> table[i].Category]],
      err |-> NoErr]}

listCategories(table) ==
    {[out |-> [Categories |-> s], err |-> NoErr] : s \in Orders(CategorySet(table))}

(***************************************************************************)
(*                       weather-server: the tools                         *)
(***************************************************************************)
\* var weatherCodeDescriptions.
WeatherCodeDescriptions ==
    (0 :> "Clear sky") @@ (1 :> "Mainly clear") @@ (2 :> "Partly cloudy")
    @@ (3 :> "Overcast") @@ (45 :> "Fog") @@ (48 :> "Depositing rime fog")
    @@ (51 :> "Light drizzle") @@ (53 :> "Moderate drizzle")
    @@ (55 :> "Dense drizzle") @@ (61 :> "Slight rain")
    @@ (63 :> "Moderate rain") @@ (65 :> "Heavy rain") @@ (71 :> "Slight snow")
    @@ (73 :> "Moderate snow") @@ (75 :> "Heavy snow") @@ (77 :> "Snow grains")
    @@ (80 :> "Slight rain showers") @@ (81 :> "Moderate rain showers")
    @@ (82 :> "Violent rain showers") @@ (85 :> "Slight snow showers")
    @@ (86 :> "Heavy snow showers") @@ (95 :> "Thunderstorm")
    @@ (96 :> "Thunderstorm with slight hail")
    @@ (99 :> "Thunderstorm with heavy hail")

getWeatherDescription(codes, code) ==
    IF code \in DOMAIN codes THEN codes[code] ELSE "Unknown"

\* Arguments decoded into GetCurrentWeatherInput and GetForecastInput.
\* Coordinates are in whole degrees.
GetCurrentWeatherInput(args) ==
    [Latitude |-> Field(args, "latitude", 0),
     Longitude |-> Field(args, "longitude", 0)]

GetForecastInput(args) ==
    [Latitude |-> Field(args, "latitude", 0),
     Longitude |-> Field(args, "longitude", 0),
     Days |-> Field(args, "days", 0)]

\* The zero values CurrentWeatherOutput{} and ForecastOutput{}.
ZeroCurrentWeatherOutput ==
    [Latitude |-> 0, Longitude |-> 0, Temperature |-> 0, WindSpeed |-> 0,
     WindDirection |-> 0, WeatherCode |-> 0, Description |-> "",
     IsDay |-> FALSE, Time |-> ""]

ZeroForecastOutput == [Latitude |-> 0, Longitude |-> 0, Daily |-> <<>>]

\* The coordinate checks with the longitude looked at first.
ValidateCoordinatesMutLongitudeFirst(input) ==
    IF input.Longitude < -180 \/ input.Longitude > 180
    THEN Err("longitude must be between -180 and 180", <<>>)
    ELSE IF input.Latitude < -90 \/ input.Latitude > 90
    THEN Err("latitude must be between -90 and 90", <<>>)
    ELSE NoErr

\* The coordinate checks at the head of getCurrentWeather and getForecast.
ValidateCoordinates(input) ==
    IF input.Latitude < -90 \/ input.Latitude > 90
    THEN Err("latitude must be between -90 and 90", <<>>)
    ELSE IF input.Longitude < -180 \/ input.Longitude > 180
    THEN Err("longitude must be between -180 and 180", <<>>)
    ELSE NoErr

\* getForecast: the number of days asked of the API, without the default.
EffectiveDaysMutNoDefault(days) == IF days > 7 THEN 7 ELSE days

\* getForecast: the number of days asked of the API.
EffectiveDays(days) ==
    IF days <= 0 THEN 3
    ELSE IF days > 7 THEN 7
    ELSE days

\* The query of the URL handed to client.Get.
CurrentWeatherRequest(input) ==
    [host |-> "api.open-meteo.com",
     query |-> [latitude |-> Itoa(input.Latitude),
                longitude |-> Itoa(input.Longitude),
                current_weather |-> "true"]]

ForecastRequest(input) ==
    [host |-> "api.open-meteo.com",
     query |-> [latitude |-> Itoa(input.Latitude),
                longitude |-> Itoa(input.Longitude),
                daily |-> "temperature_2m_max,temperature_2m_min,weathercode,precipitation_sum",
                forecast_days |-> Itoa(EffectiveDays(input.Days)),
                timezone |-> "auto"]]

QuoteRequest == [host |-> "zenquotes.io", query |-> <<>>]

\* getCurrentWeather: the result built from a decoded API response.
CurrentWeatherOutput(codes, v) ==
    [Latitude |-> v.latitude,
     Longitude |-> v.longitude,
     Temperature |-> v.current_weather.temperature,
     WindSpeed |-> v.current_weather.windspeed,
     WindDirection |-> v.current_weather.winddirection,
     WeatherCode |-> v.current_weather.weathercode,
     Description |-> getWeatherDescription(codes, v.current_weather.weathercode),
     IsDay |-> (v.current_weather.is_day = 1),
     Time |-> v.current_weather.time]

\* getCurrentWeather answering from fixed local data when the API failed.
getCurrentWeatherMutFallback(codes, x) ==
    IF x.err # "" \/ x.status # 200 \/ ~x.decodable
    THEN [out |-> [ZeroCurrentWeatherOutput EXCEPT
                       !.Description = getWeatherDescription(codes, 0)],
          err |-> NoErr]
    ELSE [out |-> CurrentWeatherOutput(codes, x.value), err |-> NoErr]

\* getCurrentWeather, from the return of client.Get on.
getCurrentWeather(codes, x) ==
    IF x.err # ""
    THEN [out |-> ZeroCurrentWeatherOutput,
          err |-> Err("failed to fetch weather data: %w", <<x.err>>)]
    ELSE IF x.status # 200
    THEN [out |-> ZeroCurrentWeatherOutput,
          err |-> Err("API returned status %d", <<Itoa(x.status)>>)]
    ELSE IF ~x.decodable
    THEN [out |-> ZeroCurrentWeatherOutput,
          err |-> Err("failed to parse API response: %w", <<"json: cannot decode">>)]
    ELSE [out |-> CurrentWeatherOutput(codes, x.value), err |-> NoErr]

\* getForecast: the loop that builds the daily forecasts; it ends at the
\* shorter of daily.time and daily.temperature_2m_max.
DailyForecasts(codes, daily) ==
    [i \in 1..Min(Len(daily.time), Len(daily.temperature_2m_max)) |->
        [Date |-> daily.time[i],
         TempMax |-> daily.temperature_2m_max[i],
         TempMin |-> daily.temperature_2m_min[i],
         WeatherCode |-> daily.weathercode[i],
         Description |-> getWeatherDescription(codes, daily.weathercode[i]),
         PrecipitationSum |-> daily.precipitation_sum[i]]]

\* getForecast: the loop indexes temperature_2m_min, weathercode and
\* precipitation_sum at every place it visits and tests the length of
\* temperature_2m_max alone; an index past the end of a slice is a run-time
\* panic.
DailyForecastsPanics(daily) ==
    \E i \in 1..Min(Len(daily.time), Len(daily.temperature_2m_max)) :
        \/ i > Len(daily.temperature_2m_min)
        \/ i > Len(daily.weathercode)
        \/ i > Len(daily.precipitation_sum)

\* getForecast, from the return of client.Get on, when the loop does not
\* panic.
getForecast(codes, x) ==
    IF x.err # ""
    THEN [out |-> ZeroForecastOutput,
          err |-> Err("failed to fetch forecast data: %w", <<x.err>>)]
    ELSE IF x.status # 200
    THEN [out |-> ZeroForecastOutput,
          err |-> Err("API returned status %d", <<Itoa(x.status)>>)]
    ELSE IF ~x.decodable
    THEN [out |-> ZeroForecastOutput,
          err |-> Err("failed to parse API response: %w", <<"json: cannot decode">>)]
    ELSE [out |-> [Latitude |-> x.value.latitude,
                   Longitude |-> x.value.longitude,
                   Daily |-> DailyForecasts(codes, x.value.daily)],
          err |-> NoErr]

(***************************************************************************)
(*                        moon-server: the tools                           *)
(***************************************************************************)
\* The moon arithmetic is carried in minutes with seven decimals, a pair
\* [min, frac] with frac counting 1/FracUnit of a minute: the synodic month
\* of 29.53058867 days is 42524.0476848 minutes exactly, and the times the
\* model uses are whole minutes.
FracUnit == 10000000

FixLess(a, b) == a.min < b.min \/ (a.min = b.min /\ a.frac < b.frac)

\* a - b, for b not greater than a.
FixSub(a, b) ==
    IF a.frac >= b.frac
    THEN [min |-> a.min - b.min, frac |-> a.frac - b.frac]
    ELSE [min |-> a.min - b.min - 1, frac |-> a.frac + FracUnit - b.frac]

FixTimes(k, a) ==
    [min |-> k * a.min + (k * a.frac) \div FracUnit,
     frac |-> (k * a.frac) % FracUnit]

\* const synodicMonth = 29.53058867.
SynodicMonth == [min |-> 42524, frac |-> 476848]

\* A time.Time in UTC: a date of the proleptic Gregorian calendar and the
\* minute of the day.
Date(y, m, d) == [year |-> y, month |-> m, day |-> d, minute |-> 0]

DaysIn(y, m) ==
    IF m = 2
    THEN (IF (y % 4 = 0 /\ y % 100 # 0) \/ y % 400 = 0 THEN 29 ELSE 28)
    ELSE IF m \in {4, 6, 9, 11} THEN 30 ELSE 31

\* The number of the day, counted from 0001-01-01 as day 1.
DayNumber(t) ==
    LET yy == t.year - 1
        before == <<0, 31, 59, 90, 120, 151, 181, 212, 243, 273, 304, 334>>
    IN  365 * yy + yy \div 4 - yy \div 100 + yy \div 400
        + before[t.month]
        + (IF t.month > 2 /\ DaysIn(t.year, 2) = 29 THEN 1 ELSE 0)
        + t.day

\* t.Before(u).
Before(t, u) ==
    \/ DayNumber(t) < DayNumber(u)
    \/ DayNumber(t) = DayNumber(u) /\ t.minute < u.minute

\* t.AddDate(0, months, days) for the steps the handlers take: a month
\* forward from the first of a month, a day forward, a day back.
AddDate(t, months, days) ==
    IF months = 1
    THEN (IF t.month = 12
          THEN [t EXCEPT !.year = t.year + 1, !.month = 1]
          ELSE [t EXCEPT !.month = t.month + 1])
    ELSE IF days = 1
    THEN (IF t.day < DaysIn(t.year, t.month)
          THEN [t EXCEPT !.day = t.day + 1]
          ELSE IF t.month = 12
          THEN [t EXCEPT !.year = t.year + 1, !.month = 1, !.day = 1]
          ELSE [t EXCEPT !.month = t.month + 1, !.day = 1])
    ELSE IF days = -1
    THEN (IF t.day > 1
          THEN [t EXCEPT !.day = t.day - 1]
          ELSE IF t.month = 1
          THEN [t EXCEPT !.year = t.year - 1, !.month = 12, !.day = 31]
          ELSE [t EXCEPT !.month = t.month - 1,
                         !.day = DaysIn(t.year, t.month - 1)])
    ELSE t

\* t.Format("2006-01-02").
Format(t) ==
    <<Digits[((t.year \div 1000) % 10) + 1], Digits[((t.year \div 100) % 10) + 1],
      Digits[((t.year \div 10) % 10) + 1], Digits[(t.year % 10) + 1], "-",
      Digits[(t.month \div 10) + 1], Digits[(t.month % 10) + 1], "-",
      Digits[(t.day \div 10) + 1], Digits[(t.day % 10) + 1]>>

\* time.Parse("2006-01-02", s): four, two and two digits with dashes between
\* them, a month of the year and a day of that month; anything else is an
\* error.
Parse(s) ==
    LET val(i) == CHOOSE n \in 0..9 : Digits[n + 1] = s[i]
        y == 1000 * val(1) + 100 * val(2) + 10 * val(3) + val(4)
        m == 10 * val(6) + val(7)
        d == 10 * val(9) + val(10)
        digit == {Digits[i] : i \in DOMAIN Digits}
    IN  IF /\ Len(s) = 10
           /\ \A i \in {1, 2, 3, 4, 6, 7, 9, 10} : s[i] \in digit
           /\ s[5] = "-" /\ s[8] = "-"
           /\ m \in 1..12
           /\ d \in 1..DaysIn(y, m)
        THEN [t |-> Date(y, m, d), err |-> NoErr]
        ELSE [t |-> Date(1, 1, 1), err |-> Err("parsing time %q", s)]

\* knownNewMoon := time.Date(2000, 1, 6, 18, 14, 0, 0, time.UTC).
KnownNewMoon == [year |-> 2000, month |-> 1, day |-> 6, minute |-> 1094]

\* The largest time.Duration, 1<<63 - 1 nanoseconds, in minutes, cut after
\* the seventh decimal.
MaxDuration == [min |-> 153722867, frac |-> 2809129]

\* t.Sub(knownNewMoon): the signed number of minutes, which Sub holds at the
\* largest and the smallest Duration when the times are further apart.
Sub(t, u) ==
    LET days == DayNumber(t) - DayNumber(u)
        m == days * 1440 + t.minute - u.minute
        abs == IF m < 0 THEN 0 - m ELSE m
    IN  IF days > 106752 THEN [neg |-> FALSE, abs |-> MaxDuration]
        ELSE IF days < -106752 THEN [neg |-> TRUE, abs |-> MaxDuration]
        ELSE IF abs > MaxDuration.min THEN [neg |-> m < 0, abs |-> MaxDuration]
        ELSE [neg |-> m < 0, abs |-> [min |-> abs, frac |-> 0]]

\* int(cyclePosition) for a duration that is not negative: the whole synodic
\* months in it.
WholeCycles(a) ==
    LET q == a.min \div SynodicMonth.min
    IN  IF FixLess(a, FixTimes(q, SynodicMonth)) THEN q - 1 ELSE q

\* cyclePosition, as the minutes into the running cycle: the position in
\* [0, 1) of the code is this over the synodic month.  The fractional part
\* of a negative quotient is negative and 1 is added to it.
cyclePosition(since) ==
    LET rest == FixSub(since.abs, FixTimes(WholeCycles(since.abs), SynodicMonth))
    IN  IF since.neg /\ rest # [min |-> 0, frac |-> 0]
        THEN FixSub(SynodicMonth, rest)
        ELSE rest

\* cyclePosition < n/d.
PositionBelow(pos, n, d) == FixLess(FixTimes(d, pos), FixTimes(n, SynodicMonth))

\* The switch of calculateMoonPhase without its default case for the
\* positions from 0.9375 on.
PhaseOfMutNoDefault(pos) ==
    IF PositionBelow(pos, 1, 16) THEN <<"New Moon", "U+1F311">>
    ELSE IF PositionBelow(pos, 3, 16) THEN <<"Waxing Crescent", "U+1F312">>
    ELSE IF PositionBelow(pos, 5, 16) THEN <<"First Quarter", "U+1F313">>
    ELSE IF PositionBelow(pos, 7, 16) THEN <<"Waxing Gibbous", "U+1F314">>
    ELSE IF PositionBelow(pos, 9, 16) THEN <<"Full Moon", "U+1F315">>
    ELSE IF PositionBelow(pos, 11, 16) THEN <<"Waning Gibbous", "U+1F316">>
    ELSE IF PositionBelow(pos, 13, 16) THEN <<"Last Quarter", "U+1F317">>
    ELSE <<"Waning Crescent", "U+1F318">>

\* calculateMoonPhase: the phase and the emoji of a position, and the
\* illumination in percent, which is 100 * part / whole.
PhaseOf(pos) ==
    IF PositionBelow(pos, 1, 16) THEN <<"New Moon", "U+1F311">>
    ELSE IF PositionBelow(pos, 3, 16) THEN <<"Waxing Crescent", "U+1F312">>
    ELSE IF PositionBelow(pos, 5, 16) THEN <<"First Quarter", "U+1F313">>
    ELSE IF PositionBelow(pos, 7, 16) THEN <<"Waxing Gibbous", "U+1F314">>
    ELSE IF PositionBelow(pos, 9, 16) THEN <<"Full Moon", "U+1F315">>
    ELSE IF PositionBelow(pos, 11, 16) THEN <<"Waning Gibbous", "U+1F316">>
    ELSE IF PositionBelow(pos, 13, 16) THEN <<"Last Quarter", "U+1F317">>
    ELSE IF PositionBelow(pos, 15, 16) THEN <<"Waning Crescent", "U+1F318">>
    ELSE <<"New Moon", "U+1F311">>

calculateMoonPhase(t) ==
    LET pos == cyclePosition(Sub(t, KnownNewMoon))
    IN  [phase |-> PhaseOf(pos)[1],
         illumination |->
             [part |-> IF PositionBelow(pos, 1, 2)
                       THEN FixTimes(2, pos)
                       ELSE FixTimes(2, FixSub(SynodicMonth, pos)),
              whole |-> SynodicMonth],
         emoji |-> PhaseOf(pos)[2]]

\* daysUntilFullMoon: (0.5 - cyclePosition) * synodicMonth, a synodic month
\* more when that is negative, cut to whole days.
daysUntilFullMoon(t) ==
    LET twice == FixTimes(2, cyclePosition(Sub(t, KnownNewMoon)))
        left == IF FixLess(SynodicMonth, twice)
                THEN FixSub(FixTimes(3, SynodicMonth), twice)
                ELSE FixSub(SynodicMonth, twice)
    IN  left.min \div 2880

\* Arguments decoded into GetMoonPhaseInput and GetMoonCalendarInput, and the
\* zero values MoonPhaseOutput{} and MoonCalendarOutput{}.
GetMoonPhaseInput(args) == [Date |-> Field(args, "date", <<>>)]

GetMoonCalendarInput(args) ==
    [Month |-> Field(args, "month", 0), Year |-> Field(args, "year", 0)]

ZeroMoonPhaseOutput ==
    [Date |-> <<>>, Phase |-> "",
     Illumination |-> [part |-> [min |-> 0, frac |-> 0], whole |-> SynodicMonth],
     DaysUntilFull |-> 0, Emoji |-> ""]

ZeroMoonCalendarOutput ==
    [Month |-> 0, Year |-> 0, NewMoon |-> <<>>, FirstQtr |-> <<>>,
     FullMoon |-> <<>>, LastQtr |-> <<>>]

\* getMoonPhase; now is what time.Now() returns.
getMoonPhase(input, now) ==
    LET parsed == IF input.Date = <<>>
                  THEN [t |-> now, err |-> NoErr]
                  ELSE Parse(input.Date)
    IN  IF parsed.err # NoErr
        THEN [out |-> ZeroMoonPhaseOutput,
              err |-> Err("invalid date format, use YYYY-MM-DD: %w", parsed.err.arg)]
        ELSE [out |-> [Date |-> Format(parsed.t),
                       Phase |-> calculateMoonPhase(parsed.t).phase,
                       Illumination |-> calculateMoonPhase(parsed.t).illumination,
                       DaysUntilFull |-> daysUntilFullMoon(parsed.t),
                       Emoji |-> calculateMoonPhase(parsed.t).emoji],
              err |-> NoErr]

\* The loop keeping the last day on which a phase begins, not the first.
RECURSIVE MoonCalendarLoopMutLast(_, _, _)
MoonCalendarLoopMutLast(d, endDate, found) ==
    IF ~Before(d, endDate) THEN found
    ELSE LET phase == calculateMoonPhase(d).phase
             prevPhase == calculateMoonPhase(AddDate(d, 0, -1)).phase
             field == CASE phase = "New Moon" -> "NewMoon"
                        [] phase = "First Quarter" -> "FirstQtr"
                        [] phase = "Full Moon" -> "FullMoon"
                        [] phase = "Last Quarter" -> "LastQtr"
                        [] OTHER -> "visited"
             seen == [found EXCEPT !.visited = Append(@, d)]
         IN  MoonCalendarLoopMutLast(AddDate(d, 0, 1), endDate,
                 IF phase # prevPhase /\ field # "visited"
                 THEN [seen EXCEPT ![field] = Format(d)]
                 ELSE seen)

\* getMoonCalendar: the loop over the days from d up to endDate.  found
\* holds the four dates, empty until set, and the days the loop has visited.
RECURSIVE MoonCalendarLoop(_, _, _)
MoonCalendarLoop(d, endDate, found) ==
    IF ~Before(d, endDate) THEN found
    ELSE LET phase == calculateMoonPhase(d).phase
             prevPhase == calculateMoonPhase(AddDate(d, 0, -1)).phase
             field == CASE phase = "New Moon" -> "NewMoon"
                        [] phase = "First Quarter" -> "FirstQtr"
                        [] phase = "Full Moon" -> "FullMoon"
                        [] phase = "Last Quarter" -> "LastQtr"
                        [] OTHER -> "visited"
             seen == [found EXCEPT !.visited = Append(@, d)]
         IN  MoonCalendarLoop(AddDate(d, 0, 1), endDate,
                 IF phase # prevPhase /\ field # "visited" /\ found[field] = <<>>
                 THEN [seen EXCEPT ![field] = Format(d)]
                 ELSE seen)

\* The month and the year are tested in the other order.
getMoonCalendarMutYearFirst(input) ==
    IF input.Year < 1900 \/ input.Year > 2100
    THEN [out |-> ZeroMoonCalendarOutput,
          err |-> Err("year must be between 1900 and 2100", <<>>)]
    ELSE IF input.Month < 1 \/ input.Month > 12
    THEN [out |-> ZeroMoonCalendarOutput,
          err |-> Err("month must be between 1 and 12", <<>>)]
    ELSE [out |-> [ZeroMoonCalendarOutput EXCEPT !.Month = input.Month,
                                                 !.Year = input.Year],
          err |-> NoErr]

getMoonCalendar(input) ==
    IF input.Month < 1 \/ input.Month > 12
    THEN [out |-> ZeroMoonCalendarOutput,
          err |-> Err("month must be between 1 and 12", <<>>)]
    ELSE IF input.Year < 1900 \/ input.Year > 2100
    THEN [out |-> ZeroMoonCalendarOutput,
          err |-> Err("year must be between 1900 and 2100", <<>>)]
    ELSE LET startDate == Date(input.Year, input.Month, 1)
             endDate == AddDate(startDate, 1, 0)
             found == MoonCalendarLoop(startDate, endDate,
                          [NewMoon |-> <<>>, FirstQtr |-> <<>>, FullMoon |-> <<>>,
                           LastQtr |-> <<>>, visited |-> <<>>])
         IN  [out |-> [Month |-> input.Month, Year |-> input.Year,
                       NewMoon |-> found.NewMoon, FirstQtr |-> found.FirstQtr,
                       FullMoon |-> found.FullMoon, LastQtr |-> found.LastQtr],
              err |-> NoErr]

(***************************************************************************)
(*        One server process: tools/list, tools/call and the tools         *)
(***************************************************************************)
Call == 1..NCall

\* The tools of each server, in the order main adds them.
RegisteredTools(s) ==
    CASE s = "moon-server"    -> <<"get_moon_phase", "get_moon_calendar">>
      [] s = "quotes-server"  -> <<"get_random_quote", "search_quotes", "list_categories">>
      [] s = "weather-server" -> <<"get_current_weather", "get_forecast">>

\* Registry: register appends a descriptor and fails on a name already
\* there; list returns the descriptors as they are; resolve finds a name.
Register(registry, name) ==
    IF \E i \in DOMAIN registry : registry[i].Name = name
    THEN registry
    ELSE Append(registry, [Name |-> name])

RECURSIVE RegisterAll(_, _)
RegisterAll(registry, names) ==
    IF names = <<>> THEN registry
    ELSE RegisterAll(Register(registry, Head(names)), Tail(names))

\* list returning the descriptors in another order than they were added.
ListToolsMutReversed(registry) ==
    [i \in 1..Len(registry) |-> registry[Len(registry) + 1 - i]]

ListTools(registry) == registry

Resolve(registry, name) == \E i \in DOMAIN registry : registry[i].Name = name

\* The result of a call as the dispatcher hands it to the transport.
NoResult == [kind |-> "none", value |-> <<>>, err |-> NoErr, message |-> ""]

ListResult(descriptors) ==
    [kind |-> "list", value |-> descriptors, err |-> NoErr, message |-> ""]

\* tools/call of a name that resolves to a default tool instead of failing.
ToolNotFoundMutDefault(name) ==
    [kind |-> "success", value |-> <<>>, err |-> NoErr, message |-> ""]

ToolNotFound(name) ==
    [kind |-> "ToolNotFound", value |-> <<>>, err |-> NoErr,
     message |-> "tool not found: " \o name]

\* The fields that the input type of a tool declares without omitempty, in
\* the order of the struct: the schema of the tool requires them.
RequiredFields(tool) ==
    CASE tool = "search_quotes" -> <<"query">>
      [] tool \in {"get_current_weather", "get_forecast"} ->
            <<"latitude", "longitude">>
      [] tool = "get_moon_calendar" -> <<"month", "year">>
      [] OTHER -> <<>>

\* The required fields that the arguments of a call leave out.
MissingFields(tool, args) ==
    SelectSeq(RequiredFields(tool), LAMBDA f : f \notin DOMAIN args)

\* Decoding the arguments failed on a missing field; the report names it.
InvalidArgumentsMutGeneric(field) ==
    [kind |-> "InvalidArguments", value |-> <<>>, err |-> NoErr,
     message |-> "invalid arguments"]

InvalidArguments(field) ==
    [kind |-> "InvalidArguments", value |-> <<>>, err |-> NoErr,
     message |-> "missing required field: " \o field]

\* A handler's return (output, error) as the result of the call.
ToolResult(r) ==
    IF r.err = NoErr
    THEN [kind |-> "success", value |-> r.out, err |-> NoErr, message |-> ""]
    ELSE [kind |-> "HandlerFailed", value |-> r.out, err |-> r.err,
          message |-> r.err.format]

\* http.Client{Timeout: ...} in fetchQuoteFromAPI and in the weather tools,
\* in seconds.
QuoteTimeout == 5

WeatherTimeout == 10

\* The timeout of the weather tools given to the quote client too.
TimeoutMutSame(tool) == WeatherTimeout

Timeout(tool) == IF tool = "get_random_quote" THEN QuoteTimeout ELSE WeatherTimeout

\* The forecast API reading forecast_days back as a number.
Decimals == [n \in 0..99 |-> Itoa(n)]

Atoi(s) == CHOOSE n \in DOMAIN Decimals : Decimals[n] = s

\* Bodies the APIs answer with.
CurrentWeatherValue(code) ==
    [latitude |-> 40, longitude |-> -74,
     current_weather |-> [temperature |-> 21, windspeed |-> 12,
                          winddirection |-> 180, weathercode |-> code,
                          is_day |-> 1, time |-> "2025-01-01T12:00"]]

ForecastCodes == <<0, 3, 61, 95, 42, 71, 2, 80>>

ForecastValue(request) ==
    LET n == Atoi(request.query.forecast_days)
    IN  [latitude |-> 40, longitude |-> -74,
         daily |-> [time |-> [i \in 1..n |-> "2025-01-0" \o Itoa(i)],
                    temperature_2m_max |-> [i \in 1..n |-> 20 + i],
                    temperature_2m_min |-> [i \in 1..n |-> 10 - i],
                    weathercode |-> [i \in 1..n |-> ForecastCodes[i]],
                    precipitation_sum |-> [i \in 1..n |-> i % 3]]]

\* Bodies that decode into OpenMeteoForecastResponse with slices of unequal
\* lengths: a key that is absent leaves its slice empty.  While several
\* calls are in flight the first of them is followed.
RaggedForecastValues(request, load) ==
    IF "forecast_days" \notin DOMAIN request.query THEN {}
    ELSE LET v == ForecastValue(request)
         IN  {[v EXCEPT !.daily.temperature_2m_min = <<>>]}
             \cup (IF load = "single"
                   THEN {[v EXCEPT !.daily.precipitation_sum = SubSeq(@, 1, Len(@) - 1)],
                         [v EXCEPT !.daily.time = Append(@, "2025-01-09")]}
                   ELSE {})

\* What an exchange with an API can come to before the client's timeout:
\* a transport error, a non-200 status, an undecodable body, a decodable one.
ExtOutcomes(request) ==
    {ExtError("dial tcp: connection refused"),
     ExtResponse(500, FALSE, <<>>),
     ExtResponse(200, FALSE, <<>>)}
    \cup (IF request.host = "zenquotes.io"
          THEN {ExtResponse(200, TRUE, <<>>), ExtResponse(200, TRUE, <<ZenQuote>>)}
          ELSE IF "current_weather" \in DOMAIN request.query
          THEN {ExtResponse(200, TRUE, CurrentWeatherValue(code)) : code \in {3, 42}}
          ELSE {ExtResponse(200, TRUE, ForecastValue(request))})

ExtTimedOut == ExtError("context deadline exceeded (Client.Timeout exceeded)")

NoExt == ExtError("none")

NoExtReq == [host |-> "", query |-> <<>>]

NoCall ==
    [pc |-> "idle", method |-> "", tool |-> "", args |-> <<>>,
     invoked |-> 0, cancelledAt |-> "", extCalls |-> 0, extReq |-> NoExtReq,
     elapsed |-> 0, ext |-> NoExt, result |-> NoResult]

\* Arguments of the requests the model sends.
Str ==
    [code |-> <<"c", "o", "d", "e">>,
     CODE |-> <<"C", "O", "D", "E">>,
     e |-> <<"e">>,
     the |-> <<"t", "h", "e">>,
     zzz |-> <<"z", "z", "z">>,
     Wisdom |-> <<"W", "i", "s", "d", "o", "m">>,
     life |-> <<"l", "i", "f", "e">>,
     poetry |-> <<"p", "o", "e", "t", "r", "y">>,
     JOBS |-> <<"J", "O", "B", "S">>]

Queries ==
    {<<>>, Str.code, Str.CODE, Str.e, Str.the, Str.zzz, Str.Wisdom, Str.JOBS}

Limits == {-2, 0, 1, 3, 5, 10, 11, 25}

Categories == {<<>>, Str.Wisdom, Str.life, Str.poetry}

Latitudes == {-91, -90, 40, 90, 91}

Longitudes == {-181, -180, -74, 180, 181}

DaysValues == {-1, 0, 1, 3, 5, 7, 8, 30}

\* Dates asked of get_moon_phase: thirty days in a row before the known new
\* moon and thirty after it, the days around it, the ends of the range of
\* get_moon_calendar, the first and the last date time.Parse accepts, which
\* lie further from the known new moon than a Duration holds, and strings
\* that are not dates.
Dates ==
    {Format(Date(1999, 12, d)) : d \in 1..30}
    \cup {Format(Date(2025, 1, d)) : d \in 1..30}
    \cup {Format(Date(2000, 1, d)) : d \in 5..7}
    \cup {Format(Date(1900, 1, 1)), Format(Date(2100, 12, 31)),
          Format(Date(1, 1, 1)), Format(Date(9999, 12, 31)),
          Format(Date(2024, 2, 29))}
    \cup {<<>>, <<"2", "0", "2", "5", "-", "0", "2", "-", "3", "0">>,
          <<"2", "0", "2", "5", "-", "1", "3", "-", "0", "1">>,
          <<"1", "5", "/", "0", "1", "/", "2", "0", "2", "5">>,
          <<"2", "0", "2", "5", "-", "1", "-", "5">>,
          <<"2", "0", "2", "5", "-", "0", "1", "-", "1", "5", "T", "1", "0", ":", "0", "0">>}

\* What time.Now() returns.
Nows == {[year |-> 2025, month |-> 6, day |-> 15, minute |-> 754],
         [year |-> 2026, month |-> 11, day |-> 4, minute |-> 0]}

Months == {-1, 0, 1, 2, 3, 4, 5, 6, 7, 8, 9, 10, 11, 12, 13}

Years == {1899, 1900, 2018, 2020, 2100, 2101}

NoArgs == [k \in {} |-> 0]

ToolArgs(tool) ==
    CASE tool = "search_quotes" ->
            {[query |-> q, limit |-> l] : q \in Queries, l \in Limits}
            \cup {[query |-> q] : q \in Queries} \cup {NoArgs}
      [] tool = "get_random_quote" ->
            {[category |-> c] : c \in Categories} \cup {NoArgs}
      [] tool = "list_categories" -> {NoArgs}
      [] tool = "get_current_weather" ->
            {[latitude |-> la, longitude |-> lo] : la \in Latitudes, lo \in Longitudes}
            \cup {[latitude |-> 40], [longitude |-> -74], NoArgs}
      [] tool = "get_forecast" ->
            {[latitude |-> la, longitude |-> lo, days |-> d] :
                la \in Latitudes, lo \in Longitudes, d \in DaysValues}
            \cup {[latitude |-> la, longitude |-> lo] :
                la \in Latitudes, lo \in Longitudes}
            \cup {[latitude |-> 40, days |-> 3], [longitude |-> -74]}
      [] tool = "get_moon_phase" -> {[date |-> d] : d \in Dates} \cup {NoArgs}
      [] tool = "get_moon_calendar" ->
            {[month |-> m, year |-> y] : m \in Months, y \in Years}
            \cup {[month |-> 1], [year |-> 2025], NoArgs}
      [] OTHER -> {NoArgs}

\* The arguments used while several calls are in flight.
FewToolArgs(tool) ==
    CASE tool = "search_quotes" -> {[query |-> Str.code]}
      [] tool = "get_random_quote" -> {[category |-> Str.life]}
      [] tool = "get_forecast" -> {[latitude |-> 40, longitude |-> -74, days |-> 8]}
      [] tool = "get_moon_calendar" -> {[month |-> 2, year |-> 2018]}
      [] tool \in {"list_categories", "get_current_weather", "get_moon_phase"} -> {}
      [] OTHER -> {NoArgs}

\* Names a client asks for: the tools of the three servers, and a name no
\* server registers.  On a server that does not register it, a name of
\* another server is unregistered too.
CalledTools ==
    {"get_moon_phase", "get_moon_calendar",
     "get_random_quote", "search_quotes", "list_categories",
     "get_current_weather", "get_forecast", "nonexistent"}

InitTools ==
    /\ t_server \in Servers
    /\ t_load \in {"single", "concurrent"}
    /\ tools = RegisterAll(<<>>, RegisteredTools(t_server))
    /\ quotes = IF t_server = "quotes-server" THEN Quotes ELSE <<>>
    /\ weatherCodeDescriptions =
           IF t_server = "weather-server" THEN WeatherCodeDescriptions ELSE <<>>
    /\ call = [c \in Call |-> NoCall]

Shared == <<t_server, t_load, tools, quotes, weatherCodeDescriptions>>

Others == <<rwVars, httpVars, mainVars>>

\* A request arrives.  Under the single load one call is served at a time
\* and its arguments range over the whole of ToolArgs.
ListRequest(c) ==
    /\ call[c].pc = "idle"
    /\ t_load = "single" => c = 1
    /\ call' = [call EXCEPT ![c] = [NoCall EXCEPT !.pc = "received",
                                                  !.method = "tools/list"]]
    /\ UNCHANGED <<Shared, Others>>

CallRequest(c, tool, args) ==
    /\ call[c].pc = "idle"
    /\ t_load = "single" => c = 1
    /\ args \in (IF t_load = "single" THEN ToolArgs(tool) ELSE FewToolArgs(tool))
    /\ call' = [call EXCEPT ![c] = [NoCall EXCEPT !.pc = "received",
                                                  !.method = "tools/call",
                                                  !.tool = tool,
                                                  !.args = args]]
    /\ UNCHANGED <<Shared, Others>>

\* tools/list.
ListToolsCall(c) ==
    /\ call[c].pc = "received"
    /\ call[c].method = "tools/list"
    /\ call' = [call EXCEPT ![c].pc = "done",
                            ![c].result = ListResult(ListTools(tools))]
    /\ UNCHANGED <<Shared, Others>>

\* tools/call: the name does not resolve.
CallUnknownTool(c) ==
    /\ call[c].pc = "received"
    /\ call[c].method = "tools/call"
    /\ ~Resolve(tools, call[c].tool)
    /\ call' = [call EXCEPT ![c].pc = "done",
                            ![c].result = ToolNotFound(call[c].tool)]
    /\ UNCHANGED <<Shared, Others>>

\* tools/call: the name resolves and the arguments leave out a field the
\* input type requires; the handler is not invoked.
CallInvalidArguments(c) ==
    /\ call[c].pc = "received"
    /\ call[c].method = "tools/call"
    /\ Resolve(tools, call[c].tool)
    /\ MissingFields(call[c].tool, call[c].args) # <<>>
    /\ call' = [call EXCEPT
           ![c].pc = "done",
           ![c].result = InvalidArguments(Head(MissingFields(call[c].tool, call[c].args)))]
    /\ UNCHANGED <<Shared, Others>>

\* tools/call: the name resolves, the arguments decode and the handler is
\* invoked.
InvokeHandler(c) ==
    /\ call[c].pc = "received"
    /\ call[c].method = "tools/call"
    /\ Resolve(tools, call[c].tool)
    /\ MissingFields(call[c].tool, call[c].args) = <<>>
    /\ call' = [call EXCEPT ![c].pc = "handler",
                            ![c].invoked = call[c].invoked + 1]
    /\ UNCHANGED <<Shared, Others>>

\* The context of the call is cancelled (the client went away) after the
\* handler was invoked and before it has called the API.  Cancellation is
\* followed under the single load.
CancelContext(c) ==
    /\ t_load = "single"
    /\ call[c].pc = "handler"
    /\ call[c].cancelledAt = ""
    /\ call' = [call EXCEPT ![c].cancelledAt = "handler"]
    /\ UNCHANGED <<Shared, Others>>

\* getMoonPhase; time.Now() is read when no date is given.
GetMoonPhaseCall(c) ==
    /\ call[c].pc = "handler"
    /\ call[c].tool = "get_moon_phase"
    /\ LET input == GetMoonPhaseInput(call[c].args)
       IN  \E now \in (IF input.Date = <<>> THEN Nows ELSE {KnownNewMoon}) :
               call' = [call EXCEPT ![c].pc = "done",
                                    ![c].result = ToolResult(getMoonPhase(input, now))]
    /\ UNCHANGED <<Shared, Others>>

\* getMoonCalendar.
GetMoonCalendarCall(c) ==
    /\ call[c].pc = "handler"
    /\ call[c].tool = "get_moon_calendar"
    /\ call' = [call EXCEPT
           ![c].pc = "done",
           ![c].result = ToolResult(getMoonCalendar(GetMoonCalendarInput(call[c].args)))]
    /\ UNCHANGED <<Shared, Others>>

\* searchQuotes.
SearchQuotesCall(c) ==
    /\ call[c].pc = "handler"
    /\ call[c].tool = "search_quotes"
    /\ call' = [call EXCEPT
           ![c].pc = "done",
           ![c].result = ToolResult(searchQuotes(quotes, SearchQuotesInput(call[c].args)))]
    /\ UNCHANGED <<Shared, Others>>

\* listCategories.
ListCategoriesCall(c) ==
    /\ call[c].pc = "handler"
    /\ call[c].tool = "list_categories"
    /\ \E r \in listCategories(quotes) :
           call' = [call EXCEPT ![c].pc = "done", ![c].result = ToolResult(r)]
    /\ UNCHANGED <<Shared, Others>>

\* client.Get(url): the request leaves and the handler waits for the return.
ClientGet(c, request) ==
    call' = [call EXCEPT ![c].pc = "waiting",
                         ![c].extCalls = call[c].extCalls + 1,
                         ![c].extReq = request,
                         ![c].elapsed = 0]

\* getRandomQuote up to client.Get in fetchQuoteFromAPI.  The handler does
\* not look at its context.
GetRandomQuoteFetch(c) ==
    /\ call[c].pc = "handler"
    /\ call[c].tool = "get_random_quote"
    /\ ClientGet(c, QuoteRequest)
    /\ UNCHANGED <<Shared, Others>>

\* getCurrentWeather up to client.Get.
GetCurrentWeatherBegin(c) ==
    /\ call[c].pc = "handler"
    /\ call[c].tool = "get_current_weather"
    /\ LET input == GetCurrentWeatherInput(call[c].args)
       IN  IF ValidateCoordinates(input) # NoErr
           THEN call' = [call EXCEPT
                    ![c].pc = "done",
                    ![c].result = ToolResult([out |-> ZeroCurrentWeatherOutput,
                                              err |-> ValidateCoordinates(input)])]
           ELSE ClientGet(c, CurrentWeatherRequest(input))
    /\ UNCHANGED <<Shared, Others>>

\* getForecast up to client.Get.
GetForecastBegin(c) ==
    /\ call[c].pc = "handler"
    /\ call[c].tool = "get_forecast"
    /\ LET input == GetForecastInput(call[c].args)
       IN  IF ValidateCoordinates(input) # NoErr
           THEN call' = [call EXCEPT
                    ![c].pc = "done",
                    ![c].result = ToolResult([out |-> ZeroForecastOutput,
                                              err |-> ValidateCoordinates(input)])]
           ELSE ClientGet(c, ForecastRequest(input))
    /\ UNCHANGED <<Shared, Others>>

\* A second passes while the client waits; elapsed counts the seconds since
\* client.Get was called and is cleared when it returns.
Tick(c) ==
    /\ call[c].pc = "waiting"
    /\ call[c].elapsed < Timeout(call[c].tool)
    /\ call' = [call EXCEPT ![c].elapsed = call[c].elapsed + 1]
    /\ UNCHANGED <<Shared, Others>>

\* client.Get returns before the timeout.
ClientGetReturns(c) ==
    /\ call[c].pc = "waiting"
    /\ call[c].elapsed < Timeout(call[c].tool)
    /\ \E x \in ExtOutcomes(call[c].extReq)
                  \cup {ExtResponse(200, TRUE, v) :
                           v \in RaggedForecastValues(call[c].extReq, t_load)} :
           call' = [call EXCEPT ![c].pc = "returned", ![c].ext = x,
                                ![c].elapsed = 0]
    /\ UNCHANGED <<Shared, Others>>

\* The client's timeout expires and client.Get returns its error.
ClientTimeout(c) ==
    /\ call[c].pc = "waiting"
    /\ call[c].elapsed = Timeout(call[c].tool)
    /\ call' = [call EXCEPT ![c].pc = "returned", ![c].ext = ExtTimedOut,
                            ![c].elapsed = 0]
    /\ UNCHANGED <<Shared, Others>>

\* getRandomQuote from the return of fetchQuoteFromAPI on.
GetRandomQuoteEnd(c) ==
    /\ call[c].pc = "returned"
    /\ call[c].tool = "get_random_quote"
    /\ LET input == GetRandomQuoteInput(call[c].args)
           fetched == fetchQuoteFromAPI(call[c].ext)
       IN  /\ \E idx \in RandChoices(quotes, input, fetched) :
                  call' = [call EXCEPT
                      ![c].pc = "done",
                      ![c].result = ToolResult(getRandomQuote(quotes, input, fetched, idx))]
           /\ quotes' = IF fetched.err = NoErr /\ input.Category = <<>>
                        THEN quotes
                        ELSE quotesAfterFilter(quotes, input)
    /\ UNCHANGED <<t_server, t_load, tools, weatherCodeDescriptions, Others>>

GetCurrentWeatherEnd(c) ==
    /\ call[c].pc = "returned"
    /\ call[c].tool = "get_current_weather"
    /\ call' = [call EXCEPT
           ![c].pc = "done",
           ![c].result = ToolResult(getCurrentWeather(weatherCodeDescriptions, call[c].ext))]
    /\ UNCHANGED <<Shared, Others>>

GetForecastEnd(c) ==
    /\ call[c].pc = "returned"
    /\ call[c].tool = "get_forecast"
    /\ LET x == call[c].ext
       IN  IF /\ x.err = "" /\ x.status = 200 /\ x.decodable
              /\ DailyForecastsPanics(x.value.daily)
           THEN call' = [call EXCEPT ![c].pc = "panicked"]
           ELSE call' = [call EXCEPT
                    ![c].pc = "done",
                    ![c].result = ToolResult(getForecast(weatherCodeDescriptions, x))]
    /\ UNCHANGED <<Shared, Others>>

\* A handler has panicked.  Where the goroutine of the handler recovers, as
\* the goroutine that serves an HTTP connection does, the call ends without
\* a result and the process goes on.
HandlerPanicRecovered(c) ==
    /\ call[c].pc = "panicked"
    /\ call' = [call EXCEPT ![c] = NoCall]
    /\ UNCHANGED <<Shared, Others>>

\* Where nothing recovers, the panic ends the process and with it every call
\* in flight.
HandlerPanicExit(c) ==
    /\ call[c].pc = "panicked"
    /\ call' = [d \in Call |-> [call[d] EXCEPT !.pc = "exited"]]
    /\ UNCHANGED <<Shared, Others>>

\* The result has been sent; the slot is free for the next request.
CallDone(c) ==
    /\ call[c].pc = "done"
    /\ call' = [call EXCEPT ![c] = NoCall]
    /\ UNCHANGED <<Shared, Others>>

\* The steps of a handler that calls an external API, from its invocation
\* to its return.
ExternalStep(c) ==
    \/ GetRandomQuoteFetch(c)
    \/ GetCurrentWeatherBegin(c)
    \/ GetForecastBegin(c)
    \/ Tick(c)
    \/ ClientGetReturns(c)
    \/ ClientTimeout(c)
    \/ GetRandomQuoteEnd(c)
    \/ GetCurrentWeatherEnd(c)
    \/ GetForecastEnd(c)

\* The steps a call takes once its request has arrived.
CallStep(c) ==
    \/ ListToolsCall(c)
    \/ CallUnknownTool(c)
    \/ CallInvalidArguments(c)
    \/ InvokeHandler(c)
    \/ GetMoonPhaseCall(c)
    \/ GetMoonCalendarCall(c)
    \/ SearchQuotesCall(c)
    \/ ListCategoriesCall(c)
    \/ ExternalStep(c)
    \/ CallDone(c)
    \/ HandlerPanicRecovered(c)
    \/ HandlerPanicExit(c)

NextTools ==
    \E c \in Call :
        \/ ListRequest(c)
        \/ \E tool \in CalledTools :
               \E args \in ToolArgs(tool) \cup FewToolArgs(tool) :
                   CallRequest(c, tool, args)
        \/ CancelContext(c)
        \/ CallStep(c)

(***************************************************************************)
(* The specifications.  A group of variables that a specification does not *)
(* move stays at a fixed initial value.                                    *)
(***************************************************************************)
ParkedHTTP ==
    /\ server = "moon-server"
    /\ corsFlag = TRUE
    /\ pc = [r \in Req |-> "idle"]
    /\ req = [r \in Req |-> NoRequest]
    /\ hdr = [r \in Req |-> EmptyHeader]
    /\ committed = [r \in Req |-> FALSE]
    /\ status = [r \in Req |-> 0]
    /\ sentHdr = [r \in Req |-> EmptyHeader]
    /\ body = [r \in Req |-> <<>>]
    /\ nextCalls = [r \in Req |-> 0]
    /\ toolInvoked = [r \in Req |-> 0]
    /\ corsDone = [r \in Req |-> FALSE]

ParkedMain ==
    /\ m_server = "moon-server"
    /\ m_portFlag = ""
    /\ m_env = [n \in EnvNames |-> ""]
    /\ m_pc = "start"
    /\ m_port = ""

ParkedTools ==
    /\ t_server = "moon-server"
    /\ t_load = "single"
    /\ tools = <<>>
    /\ quotes = <<>>
    /\ weatherCodeDescriptions = <<>>
    /\ call = [c \in Call |-> NoCall]

InitSpecRW == InitRW /\ ParkedHTTP /\ ParkedMain /\ ParkedTools

InitSpecHTTP == InitHTTP /\ InitRW /\ ParkedMain /\ ParkedTools

InitSpecMain == InitMain /\ InitRW /\ ParkedHTTP /\ ParkedTools

InitSpecTools == InitTools /\ InitRW /\ ParkedHTTP /\ ParkedMain

InitSpecToolsFair ==
    InitTools /\ t_load = "single" /\ InitRW /\ ParkedHTTP /\ ParkedMain

SpecRW == InitSpecRW /\ [][NextRW]_vars

SpecHTTP == InitSpecHTTP /\ [][NextHTTP]_vars

SpecMain == InitSpecMain /\ [][NextMain]_vars

SpecTools == InitSpecTools /\ [][NextTools]_vars

\* Termination of the calls, followed one call at a time.  The Go scheduler
\* runs every goroutine that can run, and the timer of http.Client fires: a
\* handler that can take a step takes one.
SpecToolsFair ==
    InitSpecToolsFair /\ [][NextTools]_vars /\ \A c \in Call : WF_vars(ExternalStep(c))

Spec == SpecHTTP

(***************************************************************************)
(*                              Properties                                 *)
(***************************************************************************)
\* The four CORS headers with the values the middleware is to inject.
HasCors(h) ==
    /\ HeaderGet(h, "Access-Control-Allow-Origin") = "*"
    /\ HeaderGet(h, "Access-Control-Allow-Methods") = "GET, POST, OPTIONS"
    /\ HeaderGet(h, "Access-Control-Allow-Headers") = "Content-Type, Authorization"
    /\ HeaderGet(h, "Access-Control-Expose-Headers")
           = "Mcp-Session-Id, Content-Type, Cache-Control"

\* C1 (as claimed): whenever the response went out with Content-Type
\* text/event-stream, the wrapper has captured no body byte and every byte
\* passed to Write has been handed on unchanged to the embedded writer.
C1_StreamingIsolation ==
    (u_wroteHeader /\ HeaderGet(u_sentHeader, "Content-Type") = "text/event-stream")
        => (Len(rw_body) = 0 /\ u_received = h_written)

\* C2 (as claimed): once WriteHeader has decided the wrapper's mode, no later
\* call changes it: streaming stays streaming and buffered stays buffered.
C2_ModeDecidedOnce ==
    [][rw_statusCode # 0 => rw_isStreaming' = rw_isStreaming]_vars

\* C3: for a response that was never streaming, the captured body is the
\* first min(1024, total) bytes written; the capture never exceeds 1024
\* bytes; every chunk is handed on whole to the embedded writer and Write
\* returns that writer's result.
C3_CaptureIsCappedPrefix ==
    /\ ~h_everStreaming => rw_body = SubSeq(h_written, 1, Min(1024, Len(h_written)))
    /\ Len(rw_body) <= 1024
    /\ u_received = h_written
    /\ h_ret = u_ret

\* C3 witness: three buffered writes, the cap reached and data written past it.
C3_Witness ==
    /\ ~h_everStreaming
    /\ h_calls = 3
    /\ Len(h_written) > 1025
    /\ Len(rw_body) = 1024
    /\ h_ret.n > 0

\* A preflight handled by the middleware alone: nothing forwarded, and once
\* finished, status 200, no body, the four CORS headers.
PreflightAnswered(r) ==
    /\ nextCalls[r] = 0
    /\ toolInvoked[r] = 0
    /\ pc[r] = "closed" =>
          /\ committed[r]
          /\ status[r] = 200
          /\ body[r] = <<>>
          /\ HasCors(sentHdr[r])

IsOptionsMcp(r) ==
    /\ pc[r] # "idle"
    /\ req[r].path = "/mcp"
    /\ req[r].method = "OPTIONS"

\* C4 (as claimed): in every configuration an OPTIONS request to /mcp is never
\* forwarded to the MCP transport handler and is answered 200, without body,
\* with the four CORS headers.
C4_PreflightEveryConfig == \A r \in Req : IsOptionsMcp(r) => PreflightAnswered(r)

\* C4 (amended): with the cross-origin middleware enabled, an OPTIONS request
\* to /mcp is never forwarded to the MCP transport handler and is answered
\* 200, without body, with the four CORS headers, whichever server it is.
C4_PreflightWithCors ==
    \A r \in Req : (corsFlag /\ IsOptionsMcp(r)) => PreflightAnswered(r)

\* C4 witness: a preflight answered by the quotes server.
C4_Witness ==
    \E r \in Req : /\ corsFlag
                   /\ server = "quotes-server"
                   /\ IsOptionsMcp(r)
                   /\ pc[r] = "closed"
                   /\ status[r] = 200

\* C5 (as claimed): with the middleware enabled, every committed response, on
\* any path, carries the four CORS headers.
C5_EveryResponseHasCors ==
    \A r \in Req : (corsFlag /\ committed[r]) => HasCors(sentHdr[r])

\* C6: for a non-OPTIONS request through the middleware, the wrapped handler
\* is invoked at most once, and only with the four CORS headers already set;
\* nothing is committed or written before the handler is invoked, the
\* committed header carries the four headers, and a finished request has
\* invoked the handler exactly once.
C6_HeadersBeforeHandler ==
    \A r \in Req :
        (corsFlag /\ pc[r] # "idle" /\ req[r].path = "/mcp" /\ req[r].method # "OPTIONS")
            => /\ nextCalls[r] <= 1
               /\ nextCalls[r] = 1 => (corsDone[r] /\ HasCors(hdr[r]))
               /\ nextCalls[r] = 0 => (~committed[r] /\ body[r] = <<>>)
               /\ committed[r] => HasCors(sentHdr[r])
               /\ pc[r] = "closed" => nextCalls[r] = 1

\* C6 witness: a POST answered as an event stream through the middleware.
C6_Witness ==
    \E r \in Req : /\ corsFlag
                   /\ pc[r] = "closed"
                   /\ req[r].path = "/mcp"
                   /\ req[r].method = "POST"
                   /\ nextCalls[r] = 1
                   /\ HeaderGet(sentHdr[r], "Content-Type") = "text/event-stream"

\* C7: GET /health is answered 200, application/json, with exactly the fields
\* status, server, version and mcp_endpoint, and without the MCP transport
\* handler or a tool handler being involved.
C7_Health ==
    \A r \in Req :
        (pc[r] = "closed" /\ req[r].path = "/health" /\ req[r].method = "GET")
            => /\ status[r] = 200
               /\ HeaderGet(sentHdr[r], "Content-Type") = "application/json"
               /\ body[r] = << { <<"status", "ok">>,
                                 <<"server", ServerName(server)>>,
                                 <<"version", "1.0.0">>,
                                 <<"mcp_endpoint", "/mcp">> } >>
               /\ nextCalls[r] = 0
               /\ toolInvoked[r] = 0

\* C7 witness: a health check answered while another request, which ran a
\* tool, has finished on the other connection.
C7_Witness ==
    \E r, q \in Req : /\ r # q
                      /\ pc[r] = "closed"
                      /\ req[r].path = "/health"
                      /\ req[r].method = "GET"
                      /\ pc[q] = "closed"
                      /\ toolInvoked[q] = 1

\* C8: a request whose path is neither /mcp nor /health is answered 404 with
\* a JSON object of the fields error and message, the message naming the
\* path, whatever the method, and no handler of the MCP side runs.
C8_NotFound ==
    \A r \in Req :
        (pc[r] = "closed" /\ req[r].path \notin {"/mcp", "/health"})
            => /\ status[r] = 404
               /\ HeaderGet(sentHdr[r], "Content-Type") = "application/json"
               /\ body[r] = << { <<"error", "Not Found">>,
                                 <<"message", "Path " \o req[r].path
                                      \o " not found. Try /health or /mcp">> } >>
               /\ nextCalls[r] = 0
               /\ toolInvoked[r] = 0

\* C8 witness: a POST to /mcp/ (not the registered /mcp) answered 404.
C8_Witness ==
    \E r \in Req : /\ pc[r] = "closed"
                   /\ req[r].path = "/mcp/"
                   /\ req[r].method = "POST"
                   /\ status[r] = 404

\* Environment variable and default port documented for each server.
PortEnvVar(s) ==
    CASE s = "moon-server"    -> "MOON_SERVER_PORT"
      [] s = "quotes-server"  -> "QUOTES_SERVER_PORT"
      [] s = "weather-server" -> "WEATHER_SERVER_PORT"

PortDefault(s) ==
    CASE s = "moon-server"    -> "8081"
      [] s = "quotes-server"  -> "8082"
      [] s = "weather-server" -> "8083"

\* C9: the port is the -port value when non-empty, else the server's own
\* environment variable when non-empty, else the server's default.
C9_PortResolution ==
    m_pc = "serving" =>
        /\ m_portFlag # "" => m_port = m_portFlag
        /\ (m_portFlag = "" /\ m_env[PortEnvVar(m_server)] # "")
               => m_port = m_env[PortEnvVar(m_server)]
        /\ (m_portFlag = "" /\ m_env[PortEnvVar(m_server)] = "")
               => m_port = PortDefault(m_server)

\* C9 witness: flag and environment variable both set, to different values.
C9_Witness ==
    /\ m_pc = "serving"
    /\ m_server = "moon-server"
    /\ m_portFlag = "7070"
    /\ m_env["MOON_SERVER_PORT"] = "9001"
    /\ m_port = "7070"

\* C10 (as claimed): moon-server started with PORT=9001 and no -port flag
\* listens on port 9001.
C10_PortVariable ==
    (m_pc = "serving" /\ m_server = "moon-server" /\ m_portFlag = ""
        /\ m_env["PORT"] = "9001")
            => m_port = "9001"

(***************************************************************************)
(*                       Properties of the tools                           *)
(***************************************************************************)
\* The call has ended after its handler ran.
HandlerDone(c, tool) ==
    /\ call[c].pc = "done"
    /\ call[c].method = "tools/call"
    /\ call[c].tool = tool
    /\ call[c].invoked = 1

WithLimit(args, limit) ==
    [k \in (DOMAIN args) \cup {"limit"} |-> IF k = "limit" THEN limit ELSE args[k]]

\* C11: search_quotes without a limit returns exactly what the same call
\* with limit=5 returns; whatever the limit, at most 10 quotes come back,
\* and at most the limit itself when it lies in 1..10.
C11_SearchLimit ==
    \A c \in Call :
        HandlerDone(c, "search_quotes") =>
            /\ "limit" \notin DOMAIN call[c].args =>
                   call[c].result =
                       ToolResult(searchQuotes(quotes,
                           SearchQuotesInput(WithLimit(call[c].args, 5))))
            /\ call[c].result.kind = "success" =>
                   /\ Len(call[c].result.value.Quotes) <= 10
                   /\ call[c].result.value.Total = Len(call[c].result.value.Quotes)
                   /\ ("limit" \in DOMAIN call[c].args /\ call[c].args.limit \in 1..10)
                          => Len(call[c].result.value.Quotes) <= call[c].args.limit

\* A search matching all 18 quotes with limit 25 has returned 10 of them,
\* and a search without a limit has returned 5.
C11_Witness ==
    \E c \in Call :
        /\ HandlerDone(c, "search_quotes")
        /\ call[c].args \in {[query |-> Str.e, limit |-> 25], [query |-> Str.e]}
        /\ call[c].result.kind = "success"
        /\ Len(call[c].result.value.Quotes) =
               (IF "limit" \in DOMAIN call[c].args THEN 10 ELSE 5)

\* C12: the forecast_days that get_forecast asks of the API is always in
\* 1..7: 3 when days is omitted, zero or negative, 7 when it is above 7, and
\* the supplied value otherwise.
C12_ForecastDays ==
    \A c \in Call :
        (call[c].tool = "get_forecast" /\ call[c].extCalls > 0) =>
            LET asked == call[c].extReq.query.forecast_days
                args == call[c].args
            IN  /\ asked \in {"1", "2", "3", "4", "5", "6", "7"}
                /\ "days" \notin DOMAIN args => asked = "3"
                /\ "days" \in DOMAIN args =>
                       asked = (IF args.days <= 0 THEN "3"
                                ELSE IF args.days > 7 THEN "7"
                                ELSE Decimals[args.days])

\* A forecast asked for 30 days has gone to the API as 7 days.
C12_Witness ==
    \E c \in Call :
        /\ call[c].tool = "get_forecast"
        /\ call[c].extCalls = 1
        /\ "days" \in DOMAIN call[c].args
        /\ call[c].args.days = 30
        /\ call[c].extReq.query.forecast_days = "7"

\* The exchange with the quote API failed: transport error or timeout,
\* status other than 200, undecodable body, or an empty list.
QuoteApiFailed(x) ==
    x.err # "" \/ x.status # 200 \/ ~x.decodable \/ x.value = <<>>

\* The exchange with the weather API failed.
WeatherApiFailed(x) == x.err # "" \/ x.status # 200 \/ ~x.decodable

NoCategory(args) == "category" \notin DOMAIN args \/ args.category = <<>>

LocalQuotes == {Quotes[i] : i \in DOMAIN Quotes}

\* C13: when the quote API fails and no category is given, get_random_quote
\* succeeds with a quote of the local table; the failure of the API is not
\* reported as an error of the tool.
C13_FallbackOnApiFailure ==
    \A c \in Call :
        (/\ HandlerDone(c, "get_random_quote")
         /\ QuoteApiFailed(call[c].ext)
         /\ NoCategory(call[c].args)) =>
            /\ call[c].result.kind = "success"
            /\ call[c].result.value \in LocalQuotes

\* The quote API timed out and the call has succeeded with a local quote.
C13_Witness ==
    \E c \in Call :
        /\ HandlerDone(c, "get_random_quote")
        /\ call[c].ext = ExtTimedOut
        /\ NoCategory(call[c].args)
        /\ call[c].result.kind = "success"
        /\ call[c].result.value \in LocalQuotes

WeatherTools == {"get_current_weather", "get_forecast"}

WeatherCallReturned(c) ==
    /\ call[c].tool \in WeatherTools
    /\ HandlerDone(c, call[c].tool)
    /\ call[c].extCalls = 1

\* C14 as stated: when the weather API fails, a weather tool falls back to
\* local data and the call succeeds.
C14_WeatherFallback ==
    \A c \in Call :
        (WeatherCallReturned(c) /\ WeatherApiFailed(call[c].ext)) =>
            call[c].result.kind = "success"

\* C14, amended: the weather tools have no local fallback; when the weather
\* API fails (transport error, timeout, status other than 200, undecodable
\* body) the call fails with an error naming the failure and a zero output.
C14_WeatherNoFallback ==
    \A c \in Call :
        (WeatherCallReturned(c) /\ WeatherApiFailed(call[c].ext)) =>
            /\ call[c].result.kind = "HandlerFailed"
            /\ call[c].result.message \in
                   {"failed to fetch weather data: %w",
                    "failed to fetch forecast data: %w",
                    "API returned status %d",
                    "failed to parse API response: %w"}
            /\ call[c].result.value \in {ZeroCurrentWeatherOutput, ZeroForecastOutput}

\* The weather API answered 500 and get_current_weather has failed.
C14_Witness ==
    \E c \in Call :
        /\ WeatherCallReturned(c)
        /\ call[c].tool = "get_current_weather"
        /\ call[c].ext.status = 500
        /\ call[c].result.kind = "HandlerFailed"
        /\ call[c].result.message = "API returned status %d"

ApiQuote == [Text |-> ZenQuote.q, Author |-> ZenQuote.a, Category |-> <<>>]

\* C15 as stated: with a non-empty category and a successful API call,
\* get_random_quote returns the API quote and ignores the category.
C15_ApiQuoteIgnoresCategory ==
    \A c \in Call :
        (/\ HandlerDone(c, "get_random_quote")
         /\ ~QuoteApiFailed(call[c].ext)
         /\ ~NoCategory(call[c].args)) =>
            /\ call[c].result.kind = "success"
            /\ call[c].result.value = ApiQuote

\* C15, amended: with a non-empty category get_random_quote discards the
\* API quote even when the API call succeeded: it returns a quote of that
\* category from the local table, or fails when the table has none.  The API
\* quote is returned only when no category is given.
C15_CategoryDiscardsApiQuote ==
    \A c \in Call :
        (/\ HandlerDone(c, "get_random_quote")
         /\ ~QuoteApiFailed(call[c].ext)) =>
            IF NoCategory(call[c].args)
            THEN call[c].result.kind = "success" /\ call[c].result.value = ApiQuote
            ELSE \/ /\ call[c].result.kind = "success"
                    /\ call[c].result.value \in LocalQuotes
                    /\ ToLower(call[c].result.value.Category)
                           = ToLower(call[c].args.category)
                 \/ /\ call[c].result.kind = "HandlerFailed"
                    /\ call[c].result.message = "no quotes found for category: %s"
                    /\ \A q \in LocalQuotes :
                           ToLower(q.Category) # ToLower(call[c].args.category)

\* The API answered with a quote, the category was Wisdom, and the call has
\* returned a local wisdom quote.
C15_Witness ==
    \E c \in Call :
        /\ HandlerDone(c, "get_random_quote")
        /\ ~QuoteApiFailed(call[c].ext)
        /\ call[c].args = [category |-> Str.Wisdom]
        /\ call[c].result.kind = "success"
        /\ call[c].result.value \in LocalQuotes
        /\ call[c].result.value # ApiQuote

ExternalTools == {"get_random_quote", "get_current_weather", "get_forecast"}

\* C16 as stated, its last part: a call whose API exchange timed out ends
\* as a handler failure.
C16_TimeoutIsHandlerFailure ==
    \A c \in Call :
        (/\ call[c].pc = "done"
         /\ call[c].tool \in ExternalTools
         /\ call[c].ext = ExtTimedOut) =>
            call[c].result.kind = "HandlerFailed"

\* C16, amended: every call of a tool that uses an external API comes to an
\* end, with a result or, in get_forecast, with the panic of its loop;
\* the wait for the API is at most 5 seconds for the quote API and 10 for the
\* weather API; after a timeout a weather tool ends as a handler failure
\* with the message "failed to fetch ... data", while get_random_quote
\* answers from the local table (a local quote, or the failure that the
\* table has none of the category).
C16_CallsComplete ==
    /\ \A c \in Call :
           (call[c].pc = "handler" /\ call[c].tool \in ExternalTools)
               ~> (call[c].pc \in {"done", "panicked"})
    /\ [](\A c \in Call :
           call[c].pc = "waiting" =>
               call[c].elapsed <= (IF call[c].tool = "get_random_quote" THEN 5 ELSE 10))
    /\ [](\A c \in Call :
           (call[c].pc = "done" /\ call[c].ext = ExtTimedOut) =>
               IF call[c].tool \in WeatherTools
               THEN /\ call[c].result.kind = "HandlerFailed"
                    /\ call[c].result.message \in
                           {"failed to fetch weather data: %w",
                            "failed to fetch forecast data: %w"}
               ELSE \/ /\ call[c].result.kind = "success"
                       /\ call[c].result.value \in LocalQuotes
                    \/ /\ call[c].result.kind = "HandlerFailed"
                       /\ call[c].result.message = "no quotes found for category: %s")

\* A forecast call has waited the full 10 seconds, timed out and failed.
C16_Witness ==
    \E c \in Call :
        /\ HandlerDone(c, "get_forecast")
        /\ call[c].ext = ExtTimedOut
        /\ call[c].result.kind = "HandlerFailed"
        /\ call[c].result.message = "failed to fetch forecast data: %w"

\* C17: a call whose context was cancelled before its handler reached the
\* external call issues no external call.
C17_CancelledIssuesNoCall ==
    \A c \in Call :
        call[c].cancelledAt = "handler" => call[c].extCalls = 0

\* The result is one the call can return when it runs alone, from its own
\* arguments and its own API exchange, over the tables as they were at
\* startup.
AloneResult(c, r) ==
    LET args == call[c].args
        x == call[c].ext
    IN  CASE call[c].tool = "search_quotes" ->
                r = ToolResult(searchQuotes(Quotes, SearchQuotesInput(args)))
          [] call[c].tool = "list_categories" ->
                /\ r.kind = "success"
                /\ Len(r.value.Categories) = Cardinality(CategorySet(Quotes))
                /\ {r.value.Categories[i] : i \in DOMAIN r.value.Categories}
                       = CategorySet(Quotes)
          [] call[c].tool = "get_random_quote" ->
                \E idx \in RandChoices(Quotes, GetRandomQuoteInput(args),
                                        fetchQuoteFromAPI(x)) :
                    r = ToolResult(getRandomQuote(Quotes, GetRandomQuoteInput(args),
                                                  fetchQuoteFromAPI(x), idx))
          [] call[c].tool = "get_current_weather" ->
                IF call[c].extCalls = 0
                THEN r = ToolResult([out |-> ZeroCurrentWeatherOutput,
                                     err |-> ValidateCoordinates(GetCurrentWeatherInput(args))])
                ELSE r = ToolResult(getCurrentWeather(WeatherCodeDescriptions, x))
          [] call[c].tool = "get_forecast" ->
                IF call[c].extCalls = 0
                THEN r = ToolResult([out |-> ZeroForecastOutput,
                                     err |-> ValidateCoordinates(GetForecastInput(args))])
                ELSE r = ToolResult(getForecast(WeatherCodeDescriptions, x))
          [] call[c].tool = "get_moon_phase" ->
                \E now \in Nows \cup {KnownNewMoon} :
                    r = ToolResult(getMoonPhase(GetMoonPhaseInput(args), now))
          [] call[c].tool = "get_moon_calendar" ->
                r = ToolResult(getMoonCalendar(GetMoonCalendarInput(args)))

\* C18: no handler writes shared data: the quote table and the weather-code
\* table are what they were at startup in every state, and every call ends
\* with a result it could have produced running alone on the same arguments
\* and the same API exchange.
C18_SharedDataReadOnly ==
    /\ quotes = (IF t_server = "quotes-server" THEN Quotes ELSE <<>>)
    /\ weatherCodeDescriptions =
           (IF t_server = "weather-server" THEN WeatherCodeDescriptions ELSE <<>>)
    /\ \A c \in Call :
           (call[c].pc = "done" /\ call[c].invoked = 1) =>
               AloneResult(c, call[c].result)

\* Two calls are past their handlers at once, one of them a get_random_quote
\* that filtered the table by category.
C18_Witness ==
    \E c, d \in Call :
        /\ c # d
        /\ HandlerDone(c, "get_random_quote")
        /\ ~NoCategory(call[c].args)
        /\ call[d].invoked = 1
        /\ call[d].pc \in {"waiting", "returned", "done"}

ToolNames(descriptors) == [i \in DOMAIN descriptors |-> descriptors[i].Name]

C20_UnknownTool ==
    \A c \in Call :
        (/\ call[c].pc = "done"
         /\ call[c].method = "tools/call"
         /\ call[c].tool \notin {RegisteredTools(t_server)[i] :
                                     i \in DOMAIN RegisteredTools(t_server)}) =>
            /\ call[c].result.kind = "ToolNotFound"
            /\ call[c].result.message = "tool not found: " \o call[c].tool
            /\ call[c].tool = "nonexistent" =>
                   call[c].result.message = "tool not found: nonexistent"
            /\ call[c].invoked = 0
            /\ call[c].extCalls = 0

\* A call of "nonexistent" has ended on the quotes server.
C20_Witness ==
    \E c \in Call :
        /\ t_server = "quotes-server"
        /\ call[c].pc = "done"
        /\ call[c].method = "tools/call"
        /\ call[c].tool = "nonexistent"
        /\ call[c].result.kind = "ToolNotFound"

\* The call has ended, and its tool is one the server registers.
ResolvedCallDone(c) ==
    /\ call[c].pc = "done"
    /\ call[c].method = "tools/call"
    /\ Resolve(tools, call[c].tool)

\* The fields each input struct requires, as the struct tags give them.
RequiredOf(tool) ==
    CASE tool = "search_quotes" -> {"query"}
      [] tool = "get_current_weather" -> {"latitude", "longitude"}
      [] tool = "get_forecast" -> {"latitude", "longitude"}
      [] tool = "get_moon_calendar" -> {"month", "year"}
      [] OTHER -> {}

\* C22: a call whose arguments leave out a required field ends as
\* InvalidArguments with a report naming a field that is missing; its
\* handler has not run, no request has gone to an API and the shared tables
\* are as they were.  search_quotes with an empty query fails with the
\* handler's error "query is required" and the zero output, no quotes.
C22_MissingRequiredField ==
    \A c \in Call :
        ResolvedCallDone(c) =>
            /\ (RequiredOf(call[c].tool) \ DOMAIN call[c].args # {}) =>
                   /\ call[c].result.kind = "InvalidArguments"
                   /\ \E f \in RequiredOf(call[c].tool) \ DOMAIN call[c].args :
                          call[c].result.message = "missing required field: " \o f
                   /\ call[c].result.value = <<>>
                   /\ call[c].invoked = 0
                   /\ call[c].extCalls = 0
                   /\ quotes = (IF t_server = "quotes-server" THEN Quotes ELSE <<>>)
            /\ (/\ call[c].tool = "search_quotes"
                /\ "query" \in DOMAIN call[c].args
                /\ call[c].args.query = <<>>) =>
                   /\ call[c].result.kind = "HandlerFailed"
                   /\ call[c].result.message = "query is required"
                   /\ call[c].result.value = ZeroSearchQuotesOutput

\* search_quotes called without a query has ended.
C22_Witness ==
    \E c \in Call :
        /\ ResolvedCallDone(c)
        /\ call[c].tool = "search_quotes"
        /\ "query" \notin DOMAIN call[c].args
        /\ call[c].result.kind = "InvalidArguments"

\* The categories the README lists for list_categories.
SixCategories ==
    {<<"m", "o", "t", "i", "v", "a", "t", "i", "o", "n">>,
     <<"w", "i", "s", "d", "o", "m">>,
     <<"p", "r", "o", "g", "r", "a", "m", "m", "i", "n", "g">>,
     <<"i", "n", "n", "o", "v", "a", "t", "i", "o", "n">>,
     <<"l", "i", "f", "e">>,
     <<"c", "o", "u", "r", "a", "g", "e">>}

\* C23: list_categories succeeds, and what it returns holds each of the six
\* categories of the quote table once and nothing else.
C23_ListCategories ==
    \A c \in Call :
        HandlerDone(c, "list_categories") =>
            /\ call[c].result.kind = "success"
            /\ Len(call[c].result.value.Categories) = 6
            /\ {call[c].result.value.Categories[i] :
                    i \in DOMAIN call[c].result.value.Categories} = SixCategories
            /\ SixCategories = {quotes[i].Category : i \in DOMAIN quotes} \ {<<>>}

\* list_categories has returned.
C23_Witness ==
    \E c \in Call :
        /\ HandlerDone(c, "list_categories")
        /\ call[c].result.kind = "success"
        /\ Len(call[c].result.value.Categories) = 6

\* The call of a weather tool is past the head of its handler.
PastValidation(c) ==
    /\ call[c].method = "tools/call"
    /\ call[c].tool \in WeatherTools
    /\ call[c].invoked = 1
    /\ call[c].pc \in {"waiting", "returned", "done"}

\* C24: in both weather tools a latitude outside -90..90 ends the call with
\* the error naming latitude; otherwise a longitude outside -180..180 ends it
\* with the error naming longitude; in both cases no request has gone to the
\* weather API.  Coordinates inside the ranges, -90, 90, -180 and 180
\* included, pass and the request is sent.
C24_CoordinatesValidatedFirst ==
    \A c \in Call :
        PastValidation(c) =>
            LET la == call[c].args.latitude
                lo == call[c].args.longitude
            IN  IF la < -90 \/ la > 90
                THEN /\ call[c].pc = "done"
                     /\ call[c].result.kind = "HandlerFailed"
                     /\ call[c].result.message = "latitude must be between -90 and 90"
                     /\ call[c].extCalls = 0
                ELSE IF lo < -180 \/ lo > 180
                THEN /\ call[c].pc = "done"
                     /\ call[c].result.kind = "HandlerFailed"
                     /\ call[c].result.message = "longitude must be between -180 and 180"
                     /\ call[c].extCalls = 0
                ELSE /\ call[c].extCalls = 1
                     /\ call[c].result.message
                            \notin {"latitude must be between -90 and 90",
                                    "longitude must be between -180 and 180"}

\* A call with latitude 90 and longitude 181 has ended: the latitude on the
\* boundary passed and the longitude was refused.
C24_Witness ==
    \E c \in Call :
        /\ PastValidation(c)
        /\ call[c].args.latitude = 90
        /\ call[c].args.longitude = 181
        /\ call[c].pc = "done"
        /\ call[c].extCalls = 0

\* The places in the table of the quotes one of whose text, author and
\* category holds the query, letter case set aside.
MatchingPlaces(table, query) ==
    {i \in DOMAIN table :
        \E field \in {table[i].Text, table[i].Author, table[i].Category} :
            Contains(ToLower(field), ToLower(query))}

\* The limit in force for the arguments of a search.
LimitInForce(args) ==
    IF "limit" \notin DOMAIN args \/ args.limit <= 0 THEN 5
    ELSE IF args.limit > 10 THEN 10
    ELSE args.limit

QuotesOfCategory(table, category) ==
    {table[i] : i \in {j \in DOMAIN table :
                          ToLower(table[j].Category) = ToLower(category)}}

\* C26: get_random_quote with a non-empty category, whatever the quote API
\* answered: when the table has quotes of that category, letter case set
\* aside, the call succeeds with one of them; when it has none the call
\* fails with "no quotes found for category: " and the category as given.
C26_CategoryFilter ==
    \A c \in Call :
        (HandlerDone(c, "get_random_quote") /\ ~NoCategory(call[c].args)) =>
            IF QuotesOfCategory(Quotes, call[c].args.category) # {}
            THEN /\ call[c].result.kind = "success"
                 /\ call[c].result.value \in QuotesOfCategory(Quotes, call[c].args.category)
            ELSE /\ call[c].result.kind = "HandlerFailed"
                 /\ call[c].result.err =
                        Err("no quotes found for category: %s", call[c].args.category)
                 /\ call[c].result.value = ZeroQuote

\* The quote API answered with a quote, the category asked for was poetry,
\* and the call has failed for want of a local quote of that category.
C26_Witness ==
    \E c \in Call :
        /\ HandlerDone(c, "get_random_quote")
        /\ call[c].args = [category |-> Str.poetry]
        /\ call[c].ext = ExtResponse(200, TRUE, <<ZenQuote>>)
        /\ call[c].result.kind = "HandlerFailed"

\* The shortest of the five slices of a decoded forecast.
ShortestDaily(daily) ==
    Min(Min(Len(daily.time), Len(daily.temperature_2m_max)),
        Min(Len(daily.temperature_2m_min),
            Min(Len(daily.weathercode), Len(daily.precipitation_sum))))

\* The forecast API answered the call with a body that decoded.
ForecastDecoded(c) ==
    /\ call[c].tool = "get_forecast"
    /\ call[c].method = "tools/call"
    /\ call[c].pc \in {"done", "panicked", "exited"}
    /\ call[c].extCalls = 1
    /\ call[c].ext.err = ""
    /\ call[c].ext.status = 200
    /\ call[c].ext.decodable

\* C29: whatever the lengths of the five slices of the decoded response,
\* get_forecast ends with a result and does not index a slice out of range,
\* and the list it returns is no longer than the shortest slice.
C29_ForecastIndexInRange ==
    \A c \in Call :
        ForecastDecoded(c) =>
            /\ call[c].pc = "done"
            /\ call[c].result.kind = "success"
            /\ Len(call[c].result.value.Daily) <= ShortestDaily(call[c].ext.value.daily)

\* C27: get_moon_calendar with a month outside 1..12 fails with "month must
\* be between 1 and 12"; otherwise with a year outside 1900..2100 it fails
\* with "year must be between 1900 and 2100"; both failures carry the zero
\* output.  With a month in 1..12 and a year in 1900..2100, the bounds
\* included, it succeeds and returns the month and the year it was given.
C27_CalendarValidation ==
    \A c \in Call :
        HandlerDone(c, "get_moon_calendar") =>
            LET month == call[c].args.month
                year == call[c].args.year
            IN  IF month \notin 1..12
                THEN /\ call[c].result.kind = "HandlerFailed"
                     /\ call[c].result.message = "month must be between 1 and 12"
                     /\ call[c].result.value = ZeroMoonCalendarOutput
                ELSE IF year \notin 1900..2100
                THEN /\ call[c].result.kind = "HandlerFailed"
                     /\ call[c].result.message = "year must be between 1900 and 2100"
                     /\ call[c].result.value = ZeroMoonCalendarOutput
                ELSE /\ call[c].result.kind = "success"
                     /\ call[c].result.value.Month = month
                     /\ call[c].result.value.Year = year

\* The calendar of month 13 of the year 2101 has been refused for its month.
C27_Witness ==
    \E c \in Call :
        /\ HandlerDone(c, "get_moon_calendar")
        /\ call[c].args = [month |-> 13, year |-> 2101]
        /\ call[c].result.message = "month must be between 1 and 12"

\* get_moon_calendar has returned the calendar of a month.
CalendarReturned(c) ==
    /\ HandlerDone(c, "get_moon_calendar")
    /\ call[c].result.kind = "success"

\* The days of a month on which a phase begins: the phase of the day is the
\* phase and the phase of the day before is another.
PhaseBegins(year, month, phase) ==
    {d \in 1..DaysIn(year, month) :
        /\ calculateMoonPhase(Date(year, month, d)).phase = phase
        /\ calculateMoonPhase(AddDate(Date(year, month, d), 0, -1)).phase # phase}

\* The date of a field of the calendar: the first of the days on which the
\* phase begins, or the empty string when it begins on no day of the month.
FirstBeginning(year, month, phase) ==
    LET days == PhaseBegins(year, month, phase)
    IN  IF days = {} THEN <<>>
        ELSE Format(Date(year, month, CHOOSE d \in days : \A e \in days : d <= e))

\* The days the loop of getMoonCalendar has visited, in order.
VisitedDays(year, month) ==
    MoonCalendarLoop(Date(year, month, 1), AddDate(Date(year, month, 1), 1, 0),
                     [NewMoon |-> <<>>, FirstQtr |-> <<>>, FullMoon |-> <<>>,
                      LastQtr |-> <<>>, visited |-> <<>>]).visited

EightPhases ==
    <<"New Moon", "Waxing Crescent", "First Quarter", "Waxing Gibbous",
      "Full Moon", "Waning Gibbous", "Last Quarter", "Waning Crescent">>

\* The times get_moon_phase can have computed the phase of: the date it was
\* given, or one of the values of time.Now().
PhaseTimes(c) ==
    IF "date" \in DOMAIN call[c].args /\ call[c].args.date # <<>>
    THEN {Parse(call[c].args.date).t}
    ELSE Nows

\* The sixteenth of the cycle a position lies in, 0 to 15; the bands of the
\* phases are two sixteenths wide and the band of the new moon is the last
\* sixteenth and the first.
Sixteenth(pos) ==
    CHOOSE k \in 0..15 :
        /\ ~FixLess(FixTimes(16, pos), FixTimes(k, SynodicMonth))
        /\ FixLess(FixTimes(16, pos), FixTimes(k + 1, SynodicMonth))

ZeroOutput(tool) ==
    CASE tool = "get_moon_phase" -> ZeroMoonPhaseOutput
      [] tool = "get_moon_calendar" -> ZeroMoonCalendarOutput
      [] tool = "get_random_quote" -> ZeroQuote
      [] tool = "search_quotes" -> ZeroSearchQuotesOutput
      [] tool = "get_current_weather" -> ZeroCurrentWeatherOutput
      [] tool = "get_forecast" -> ZeroForecastOutput
      [] OTHER -> <<>>

\* C21: every handler that was invoked and has ended has returned, either an
\* output with no error or an error with the zero output, and the error of
\* the result carries the handler's message; no handler ends in a panic,
\* and no call is cut off by the exit of the process.
C21_FailuresAreValues ==
    \A c \in Call :
        /\ call[c].pc \notin {"panicked", "exited"}
        /\ (call[c].pc = "done" /\ call[c].invoked = 1) =>
               \/ /\ call[c].result.kind = "success"
                  /\ call[c].result.err = NoErr
               \/ /\ call[c].result.kind = "HandlerFailed"
                  /\ call[c].result.err # NoErr
                  /\ call[c].result.message = call[c].result.err.format
                  /\ call[c].result.value = ZeroOutput(call[c].tool)

====
